---- MODULE Spec2Model ----
(***************************************************************************)
(* Vics Agent: the agent loop (vics_agent/agent.py), the tool executor and *)
(* the file and shell tools (vics_agent/tools.py).                         *)
(*                                                                         *)
(* Text is a sequence of one-character strings, so that prefix tests,      *)
(* counting and replacing are computed as Python computes them on str.     *)
(* A path is a sequence of names; the filesystem maps the paths that exist *)
(* to their nodes.                                                         *)
(***************************************************************************)
EXTENDS Naturals, Integers, Sequences, FiniteSets, TLC

\* ------------------------------------------------------------------ bounds
\* AgentConfig.max_iterations as configured for the checked agent
MaxIterations == 2
\* most tool requests one assistant turn carries
MaxBatch == 2
\* a model call is answered only while the conversation has fewer turns
MaxLen == 7

\* ------------------------------------------------------------------ text
\* str.startswith
StartsWith(s, t) == Len(t) <= Len(s) /\ SubSeq(s, 1, Len(t)) = t

\* the occurrences of sub in s at position i, as str.find sees them
OccursAt(s, sub, i) ==
    i + Len(sub) - 1 <= Len(s) /\ SubSeq(s, i, i + Len(sub) - 1) = sub

\* `sub in s`
Contains(s, sub) == \E i \in 1..(Len(s) + 1) : OccursAt(s, sub, i)

RECURSIVE CountFrom(_, _, _)
\* str.count: non-overlapping occurrences, scanning from the left
CountFrom(s, sub, i) ==
    IF i > Len(s) + 1 THEN 0
    ELSE IF OccursAt(s, sub, i)
         THEN 1 + CountFrom(s, sub, IF Len(sub) = 0 THEN i + 1 ELSE i + Len(sub))
         ELSE CountFrom(s, sub, i + 1)

Count(s, sub) == CountFrom(s, sub, 1)

\* str.replace(old, new, 1): the leftmost occurrence only
ReplaceFirst(s, old, new) ==
    IF ~Contains(s, old) THEN s
    ELSE LET i == CHOOSE k \in 1..(Len(s) + 1) :
                      /\ OccursAt(s, old, k)
                      /\ \A j \in 1..(k - 1) : ~OccursAt(s, old, j)
         IN  SubSeq(s, 1, i - 1) \o new \o SubSeq(s, i + Len(old), Len(s))

\* ------------------------------------------------------------------ paths
n_w == <<"w">>
n_w2 == <<"w", "2">>
n_o == <<"o">>
n_f == <<"f">>
n_d == <<"d">>
n_l == <<"l">>
n_m == <<"m">>
n_g == <<"g">>
n_h == <<".", "h">>
DotDot == <<".", ".">>

RECURSIVE PathStr(_)
\* str(Path): "/" for the root, else "/" + name for every part
PathStr(p) ==
    IF p = <<>> THEN <<"/">>
    ELSE IF Len(p) = 1 THEN <<"/">> \o p[1]
    ELSE PathStr(SubSeq(p, 1, Len(p) - 1)) \o <<"/">> \o p[Len(p)]

Parent(p) == IF p = <<>> THEN <<>> ELSE SubSeq(p, 1, Len(p) - 1)

\* the proper ancestors of p, the root included
Ancestors(p) == {SubSeq(p, 1, k) : k \in 0..(Len(p) - 1)}

IsInside(root, p) == Len(root) <= Len(p) /\ SubSeq(p, 1, Len(root)) = root

\* ------------------------------------------------------------------ filesystem
DirNode == [type |-> "dir"]
FileNode(c) == [type |-> "file", content |-> c]
LinkNode(t) == [type |-> "link", target |-> t]

Exists(fs, p) == p \in DOMAIN fs
IsDir(fs, p) == Exists(fs, p) /\ fs[p].type = "dir"
IsFile(fs, p) == Exists(fs, p) /\ fs[p].type = "file"
IsLink(fs, p) == Exists(fs, p) /\ fs[p].type = "link"

FsPut(fs, p, node) == [q \in DOMAIN fs \cup {p} |-> IF q = p THEN node ELSE fs[q]]
FsRemove(fs, p) == [q \in DOMAIN fs \ {p} |-> fs[q]]

\* Path.__truediv__: an absolute right operand replaces the left one
Join(workspace, path) == IF path.abs THEN path.parts ELSE workspace \o path.parts

RECURSIVE ResolveFrom(_, _, _)
\* Path.resolve(): ".." drops the last part of what is resolved so far, a
\* symlink is replaced by its target, a missing part is kept as written
ResolveFrom(fs, cur, parts) ==
    IF parts = <<>> THEN cur
    ELSE LET seg == Head(parts)
             nxt == Append(cur, seg)
             now == IF seg = DotDot THEN Parent(cur)
                    ELSE IF IsLink(fs, nxt) THEN fs[nxt].target
                    ELSE nxt
         IN  ResolveFrom(fs, now, Tail(parts))

Resolve(fs, parts) == ResolveFrom(fs, <<>>, parts)

\* ------------------------------------------------------------------ values
\* a JSON / Python value with its type
StrVal(v) == [t |-> "str", v |-> v]
IntVal(n) == [t |-> "int", v |-> n]
\* a path as the caller writes it: relative or absolute, its parts in order
PathText(abs, parts) == [abs |-> abs, parts |-> parts]

\* what a call did: the filesystem it leaves, the string it returned or the
\* exception it raised, the subprocesses it started, and the paths whose
\* content or entries it read
Returned(fs, text) ==
    [fs |-> fs, raised |-> FALSE, value |-> text, spawned |-> <<>>, read |-> {}]
Raised(fs, exc) ==
    [fs |-> fs, raised |-> TRUE, value |-> exc, spawned |-> <<>>, read |-> {}]
Reading(paths, outcome) == [outcome EXCEPT !.read = paths]

\* the result strings of tools.py
AccessDenied == [text |-> "Error: Access denied - path escapes workspace."]
FileNotFound(path) == [text |-> "Error: File not found: {path}", path |-> path]
DirNotFound(path) == [text |-> "Error: Directory not found: {path}", path |-> path]
NotADirectory(path) == [text |-> "Error: Not a directory: {path}", path |-> path]
FileText(c) == [text |-> "{content}", content |-> c]
Wrote(n, path) == [text |-> "Successfully wrote {n} bytes to {path}", n |-> n, path |-> path]
OldNotFound == [text |-> "Error: old_string not found in file."]
OldAmbiguous(n) == [text |-> "Error: old_string found {count} times - must be unique. Add more context.", count |-> n]
Edited(path) == [text |-> "Successfully edited {path}", path |-> path]
EmptyDirectory == [text |-> "(empty directory)"]
Listing(entries) == [text |-> "{entries joined by newline}", entries |-> entries]
UseRunCommand == [text |-> "Error: Use run_command to remove directories."]
Deleted(path) == [text |-> "Deleted {path}", path |-> path]
ThoughtRecorded == [text |-> "Thought recorded. Continue with your plan."]
Blocked == [text |-> "Error: This command is blocked for safety."]
TimedOut(t) == [text |-> "Error: Command timed out after {timeout}s.", timeout |-> t]
CommandOutput(o) == [text |-> "{output}", output |-> o]
UnknownTool(name) == [text |-> "Error: Unknown tool '{name}'", name |-> name]
ErrorExecuting(name, exc) == [text |-> "Error executing {name}: {type}: {e}", name |-> name, exc |-> exc]

\* ------------------------------------------------------------------ workspace boundary
\* `not str(target).startswith(str(workspace.resolve()))`
EscapesWorkspace(fs, workspace, target) ==
    ~StartsWith(PathStr(target), PathStr(Resolve(fs, workspace)))

\* (workspace / path).resolve(); a path that is no str raises TypeError
Target(fs, workspace, path) == Resolve(fs, Join(workspace, path.v))

\* ------------------------------------------------------------------ text files
\* A text is a sequence of characters and a file holds a sequence of bytes.
\* An ASCII character is its own byte; "U+E9" is the letter e with an acute
\* accent, "U+FFFD" the replacement character, and "xC3" and the like are the
\* bytes of their UTF-8 encodings.
Utf8Bytes(c) ==
    CASE c = "U+E9" -> <<"xC3", "xA9">>
      [] c = "U+FFFD" -> <<"xEF", "xBF", "xBD">>
      [] OTHER -> <<c>>

RECURSIVE Utf8Encode(_)
\* str.encode("utf-8"), in two halves
Utf8Encode(text) ==
    IF text = <<>> THEN <<>>
    ELSE IF Len(text) = 1 THEN Utf8Bytes(text[1])
    ELSE LET mid == Len(text) \div 2 IN
         Utf8Encode(SubSeq(text, 1, mid)) \o Utf8Encode(SubSeq(text, mid + 1, Len(text)))

\* whether s holds the bytes `unit` from position i on
BytesAt(s, unit, i) ==
    /\ i >= 1
    /\ i + Len(unit) - 1 <= Len(s)
    /\ SubSeq(s, i, i + Len(unit) - 1) = unit

\* byte i continues a character that starts before it
Continues(s, i) ==
    \/ s[i] = "xA9" /\ BytesAt(s, Utf8Bytes("U+E9"), i - 1)
    \/ s[i] = "xBF" /\ BytesAt(s, Utf8Bytes("U+FFFD"), i - 1)
    \/ s[i] = "xBD" /\ BytesAt(s, Utf8Bytes("U+FFFD"), i - 2)

\* bytes.decode("utf-8", errors="replace"): the character that starts at
\* byte i; a byte that starts no character of the model is replaced
Utf8Char(s, i) ==
    IF BytesAt(s, Utf8Bytes("U+E9"), i) THEN "U+E9"
    ELSE IF BytesAt(s, Utf8Bytes("U+FFFD"), i) THEN "U+FFFD"
    ELSE IF s[i] \in {"xC3", "xA9", "xEF", "xBF", "xBD"} THEN "U+FFFD"
    ELSE s[i]

Utf8Decode(bytes) ==
    LET starts == SelectSeq([i \in 1..Len(bytes) |-> i], LAMBDA i : ~Continues(bytes, i)) IN
    [k \in 1..Len(starts) |-> Utf8Char(bytes, starts[k])]

RECURSIVE UniversalNewlines(_)
\* text mode with newline=None: "\r\n" and a lone "\r" both reach the caller
\* as "\n". The text is translated in two halves that do not part a "\r\n".
UniversalNewlines(text) ==
    IF text = <<>> THEN <<>>
    ELSE IF Len(text) = 1 THEN IF text[1] = "\r" THEN <<"\n">> ELSE text
    ELSE IF text = <<"\r", "\n">> THEN <<"\n">>
    ELSE LET mid == Len(text) \div 2
             cut == IF text[mid] = "\r" /\ text[mid + 1] = "\n" THEN mid + 1 ELSE mid
         IN  UniversalNewlines(SubSeq(text, 1, cut))
                \o UniversalNewlines(SubSeq(text, cut + 1, Len(text)))

\* Path.read_text(encoding="utf-8", errors="replace"): the bytes are decoded
\* and the newlines translated
read_text(bytes) == UniversalNewlines(Utf8Decode(bytes))

\* Path.write_text(encoding="utf-8"): "\n" is written as os.linesep, which is
\* "\n" on the POSIX platform of the model, and the text is encoded
write_text(text) == Utf8Encode(text)

\* ------------------------------------------------------------------ tools
read_file(fs, env, workspace, path) ==
    IF path.t # "str" THEN Raised(fs, "TypeError")
    ELSE LET target == Target(fs, workspace, path) IN
         IF EscapesWorkspace(fs, workspace, target) THEN Returned(fs, AccessDenied)
         ELSE IF ~Exists(fs, target) THEN Returned(fs, FileNotFound(path.v))
         ELSE IF IsDir(fs, target) THEN Raised(fs, "IsADirectoryError")
         ELSE IF env.io_fault THEN Raised(fs, "PermissionError")
         ELSE Reading({target}, Returned(fs, FileText(read_text(fs[target].content))))

\* target.parent.mkdir(parents=True, exist_ok=True): every missing ancestor
\* becomes a directory; an ancestor that is a file makes os.mkdir fail first
MkdirParents(fs, target) ==
    [q \in DOMAIN fs \cup (Ancestors(target) \cup {<<>>}) |->
        IF q \in DOMAIN fs THEN fs[q] ELSE DirNode]

write_file(fs, env, workspace, path, content) ==
    IF path.t # "str" THEN Raised(fs, "TypeError")
    ELSE LET target == Target(fs, workspace, path) IN
         IF EscapesWorkspace(fs, workspace, target) THEN Returned(fs, AccessDenied)
         ELSE IF \E a \in Ancestors(target) : IsFile(fs, a)
              THEN Raised(fs, IF IsFile(fs, Parent(target)) THEN "FileExistsError"
                              ELSE "NotADirectoryError")
         ELSE LET made == MkdirParents(fs, target) IN
              IF content.t # "str" THEN Raised(made, "TypeError")
              ELSE IF IsDir(made, target) THEN Raised(made, "IsADirectoryError")
              ELSE IF env.io_fault THEN Raised(made, "PermissionError")
              ELSE Returned(FsPut(made, target, FileNode(write_text(content.v))),
                            Wrote(Len(content.v), path.v))

edit_file(fs, env, workspace, path, old_string, new_string) ==
    IF path.t # "str" THEN Raised(fs, "TypeError")
    ELSE LET target == Target(fs, workspace, path) IN
         IF EscapesWorkspace(fs, workspace, target) THEN Returned(fs, AccessDenied)
         ELSE IF ~Exists(fs, target) THEN Returned(fs, FileNotFound(path.v))
         ELSE IF IsDir(fs, target) THEN Raised(fs, "IsADirectoryError")
         ELSE IF env.io_fault THEN Raised(fs, "PermissionError")
         ELSE IF old_string.t # "str" THEN Reading({target}, Raised(fs, "TypeError"))
         ELSE LET content == read_text(fs[target].content)
                  count == Count(content, old_string.v) IN
              Reading({target},
                IF count = 0 THEN Returned(fs, OldNotFound)
                ELSE IF count > 1 THEN Returned(fs, OldAmbiguous(count))
                ELSE IF new_string.t # "str" THEN Raised(fs, "TypeError")
                ELSE Returned(
                       FsPut(fs, target,
                             FileNode(write_text(
                                 ReplaceFirst(content, old_string.v, new_string.v)))),
                       Edited(path.v)))

\* a delete_file without the directory test: unlink of a directory raises
delete_file_unlinks_any(fs, env, workspace, path) ==
    IF path.t # "str" THEN Raised(fs, "TypeError")
    ELSE LET target == Target(fs, workspace, path) IN
         IF EscapesWorkspace(fs, workspace, target) THEN Returned(fs, AccessDenied)
         ELSE IF ~Exists(fs, target) THEN Returned(fs, FileNotFound(path.v))
         ELSE IF IsDir(fs, target) \/ env.io_fault THEN Raised(fs, "PermissionError")
         ELSE Returned(FsRemove(fs, target), Deleted(path.v))

delete_file(fs, env, workspace, path) ==
    IF path.t # "str" THEN Raised(fs, "TypeError")
    ELSE LET target == Target(fs, workspace, path) IN
         IF EscapesWorkspace(fs, workspace, target) THEN Returned(fs, AccessDenied)
         ELSE IF ~Exists(fs, target) THEN Returned(fs, FileNotFound(path.v))
         ELSE IF IsDir(fs, target) THEN Returned(fs, UseRunCommand)
         ELSE IF env.io_fault THEN Raised(fs, "PermissionError")
         ELSE Returned(FsRemove(fs, target), Deleted(path.v))

think(fs, env, workspace, thought) == Returned(fs, ThoughtRecorded)

\* ------------------------------------------------------------------ ordering
\* the characters of the model in code-point order
CharOrder == <<"\n", "\r", " ", "&", "(", ")", "-", ".", "/", "1", "2", ":", ";",
               "F", "R", "a", "b", "c", "d", "e", "f", "g", "h", "i", "l", "m",
               "o", "p", "q", "r", "s", "t", "w", "x", "{", "|", "}">>

Ord(c) == CHOOSE i \in 1..Len(CharOrder) : CharOrder[i] = c

RECURSIVE TextLess(_, _)
\* str.__lt__
TextLess(a, b) ==
    IF b = <<>> THEN FALSE
    ELSE IF a = <<>> THEN TRUE
    ELSE IF Head(a) = Head(b) THEN TextLess(Tail(a), Tail(b))
    ELSE Ord(Head(a)) < Ord(Head(b))

RECURSIVE Sorted(_)
\* sorted(): the texts of a set, ascending
Sorted(S) ==
    IF S = {} THEN <<>>
    ELSE LET least == CHOOSE x \in S : \A y \in S \ {x} : TextLess(x, y)
         IN  <<least>> \o Sorted(S \ {least})

\* str.lower on the characters of the model
LowerChar(c) == IF c = "R" THEN "r" ELSE IF c = "F" THEN "f" ELSE c
Lower(s) == [i \in 1..Len(s) |-> LowerChar(s[i])]

Whitespace == {" ", "\n", "\r"}

RECURSIVE LStrip(_)
LStrip(s) == IF s # <<>> /\ Head(s) \in Whitespace THEN LStrip(Tail(s)) ELSE s

RECURSIVE RStrip(_)
RStrip(s) ==
    IF s # <<>> /\ s[Len(s)] \in Whitespace THEN RStrip(SubSeq(s, 1, Len(s) - 1)) ELSE s

\* str.strip
Strip(s) == LStrip(RStrip(s))

RECURSIVE SplitTerminated(_)
\* the lines of a text that ends where a line ends: one line when it holds
\* no "\n", else the lines before and after the "\n" nearest to its middle
SplitTerminated(s) ==
    LET breaks == {k \in 1..Len(s) : s[k] = "\n"} IN
    IF breaks = {} THEN <<s>>
    ELSE LET mid == (Len(s) + 1) \div 2
             far(k) == IF k < mid THEN mid - k ELSE k - mid
             i == CHOOSE k \in breaks : \A j \in breaks : far(k) <= far(j)
         IN  SplitTerminated(SubSeq(s, 1, i - 1)) \o SplitTerminated(SubSeq(s, i + 1, Len(s)))

\* str.splitlines: the lines without their terminators, no empty last line
SplitLines(s) ==
    IF s = <<>> THEN <<>>
    ELSE IF s[Len(s)] = "\n" THEN SplitTerminated(SubSeq(s, 1, Len(s) - 1))
    ELSE SplitTerminated(s)

\* ------------------------------------------------------------------ more tools
\* the entries of a directory
Children(fs, dir) == {p \in DOMAIN fs : Len(p) = Len(dir) + 1 /\ Parent(p) = dir}

\* Path.is_dir(): follows a symlink
IsDirFollow(fs, p) ==
    IsDir(fs, p) \/ (IsLink(fs, p) /\ IsDir(fs, fs[p].target))

\* Path.is_file(): follows a symlink
IsFileFollow(fs, p) ==
    IsFile(fs, p) \/ (IsLink(fs, p) /\ IsFile(fs, fs[p].target))

EntryName(fs, item) ==
    IF IsDirFollow(fs, item) THEN item[Len(item)] \o <<"/">> ELSE item[Len(item)]

\* the texts of a sequence, last first
Reversed(q) == [i \in 1..Len(q) |-> q[Len(q) + 1 - i]]

\* a list_directory that lists in another order than the sorted one
list_directory_unsorted(fs, env, workspace, path) ==
    IF path.t # "str" THEN Raised(fs, "TypeError")
    ELSE LET target == Target(fs, workspace, path) IN
         IF EscapesWorkspace(fs, workspace, target) THEN Returned(fs, AccessDenied)
         ELSE IF ~Exists(fs, target) THEN Returned(fs, DirNotFound(path.v))
         ELSE IF ~IsDir(fs, target) THEN Returned(fs, NotADirectory(path.v))
         ELSE IF env.io_fault THEN Raised(fs, "PermissionError")
         ELSE LET items == Reversed(Sorted({item[Len(item)] : item \in Children(fs, target)}))
                  entries == [i \in 1..Len(items) |->
                                 EntryName(fs, Append(target, items[i]))]
              IN  Reading({target},
                    IF entries = <<>> THEN Returned(fs, EmptyDirectory)
                    ELSE Returned(fs, Listing(entries)))

list_directory(fs, env, workspace, path) ==
    IF path.t # "str" THEN Raised(fs, "TypeError")
    ELSE LET target == Target(fs, workspace, path) IN
         IF EscapesWorkspace(fs, workspace, target) THEN Returned(fs, AccessDenied)
         ELSE IF ~Exists(fs, target) THEN Returned(fs, DirNotFound(path.v))
         ELSE IF ~IsDir(fs, target) THEN Returned(fs, NotADirectory(path.v))
         ELSE IF env.io_fault THEN Raised(fs, "PermissionError")
         ELSE LET items == Sorted({item[Len(item)] : item \in Children(fs, target)})
                  entries == [i \in 1..Len(items) |->
                                 EntryName(fs, Append(target, items[i]))]
              IN  Reading({target},
                    IF entries = <<>> THEN Returned(fs, EmptyDirectory)
                    ELSE Returned(fs, Listing(entries)))

\* search_files stops at this many matches
MaxMatches == 50

AllFilesGlob == <<"*", "*", "/", "*">>

\* workspace.resolve().rglob(file_glob): every path below the root whose name
\* the glob accepts; a symlink is yielded but never descended into
GlobMatches(fs, root, glob) ==
    {p \in DOMAIN fs : /\ Len(p) > Len(root)
                       /\ IsInside(root, p)
                       /\ \A a \in Ancestors(p) : IsInside(root, a) => IsDir(fs, a)
                       /\ (glob = AllFilesGlob \/ p[Len(p)] = glob)}

RECURSIVE Orderings(_)
Orderings(S) ==
    IF S = {} THEN {<<>>}
    ELSE UNION {{<<x>> \o rest : rest \in Orderings(S \ {x})} : x \in S}

RECURSIVE SortedPaths(_)
SortedPaths(S) ==
    IF S = {} THEN <<>>
    ELSE LET least == CHOOSE x \in S : \A y \in S \ {x} : TextLess(PathStr(x), PathStr(y))
         IN  <<least>> \o SortedPaths(S \ {least})

\* the orders in which the directory scan may yield the paths: the files in
\* any order (the paths that are no files are skipped wherever they come)
ScanOrders(fs, workspace, glob) ==
    LET all == GlobMatches(fs, Resolve(fs, workspace), glob)
        files == {p \in all : IsFile(fs, p) \/ (IsLink(fs, p) /\ IsFile(fs, fs[p].target))}
    IN  {SortedPaths(all \ files) \o order : order \in Orderings(files)}

\* `any(part.startswith(".") for part in rel.parts)`
IsHidden(rel) == \E i \in 1..Len(rel) : StartsWith(rel[i], <<".">>)

\* the text read through a path that is a file or a symlink to one
ReadThrough(fs, p) ==
    read_text(IF IsLink(fs, p) THEN fs[fs[p].target].content ELSE fs[p].content)

\* the file a path of the scan stands for
ReadTarget(fs, p) == IF IsLink(fs, p) THEN fs[p].target ELSE p

MatchLine(rel, i, line) == [rel |-> rel, lineno |-> i, line |-> Strip(line)]
TruncatedNotice == [rel |-> <<>>, lineno |-> 0, line |-> <<"... (truncated at 50 matches)">>]
NoMatches == [text |-> "No matches found."]
Matches(results) == [text |-> "{results joined by newline}", results |-> results]

RECURSIVE ScanLines_late(_, _, _, _, _)
\* a loop over the lines that tests for the limit before it appends
ScanLines_late(results, rel, lines, i, pattern) ==
    IF i > Len(lines) THEN [results |-> results, full |-> FALSE]
    ELSE IF Contains(Lower(lines[i]), Lower(pattern))
         THEN IF Len(results) >= MaxMatches
              THEN [results |-> Append(Append(results, MatchLine(rel, i, lines[i])),
                                       TruncatedNotice),
                    full |-> TRUE]
              ELSE ScanLines_late(Append(results, MatchLine(rel, i, lines[i])), rel, lines,
                                  i + 1, pattern)
         ELSE ScanLines_late(results, rel, lines, i + 1, pattern)

RECURSIVE ScanLines(_, _, _, _, _)
\* the loop over the lines of one file: [results, full]
ScanLines(results, rel, lines, i, pattern) ==
    IF i > Len(lines) THEN [results |-> results, full |-> FALSE]
    ELSE IF Contains(Lower(lines[i]), Lower(pattern))
         THEN LET more == Append(results, MatchLine(rel, i, lines[i])) IN
              IF Len(more) >= MaxMatches
              THEN [results |-> Append(more, TruncatedNotice), full |-> TRUE]
              ELSE ScanLines(more, rel, lines, i + 1, pattern)
         ELSE ScanLines(results, rel, lines, i + 1, pattern)

RECURSIVE ScanFiles(_, _, _, _, _, _)
\* the loop over the paths the scan yields: [results, full, read]
ScanFiles(fs, env, root, order, results, pattern) ==
    IF order = <<>> THEN [results |-> results, full |-> FALSE, read |-> {}]
    ELSE LET file_path == Head(order)
             rel == SubSeq(file_path, Len(root) + 1, Len(file_path))
         IN  IF \/ ~IsFileFollow(fs, file_path)
                \/ IsHidden(rel)
                \/ env.io_fault
             THEN ScanFiles(fs, env, root, Tail(order), results, pattern)
             ELSE LET got == ScanLines(results, rel,
                                       SplitLines(ReadThrough(fs, file_path)), 1, pattern)
                      rest == IF got.full
                              THEN [results |-> got.results, full |-> TRUE, read |-> {}]
                              ELSE ScanFiles(fs, env, root, Tail(order), got.results,
                                             pattern)
                  IN  [rest EXCEPT !.read = @ \cup {ReadTarget(fs, file_path)}]

search_files(fs, env, workspace, pattern, file_glob) ==
    IF pattern.t # "str" \/ file_glob.t # "str" THEN Raised(fs, "TypeError")
    ELSE LET root == Resolve(fs, workspace)
             got == ScanFiles(fs, env, root, env.order, <<>>, pattern.v)
         IN  Reading(got.read,
               IF got.results = <<>> THEN Returned(fs, NoMatches)
               ELSE Returned(fs, Matches(got.results)))

\* the denylist of run_command
BlockedPatterns ==
    { <<"r", "m", " ", "-", "r", "f", " ", "/">>,
      <<"f", "o", "r", "m", "a", "t", " ", "c", ":">>,
      <<"d", "e", "l", " ", "/", "f", " ", "/", "s", " ", "/", "q", " ", "c", ":">>,
      <<":", "(", ")", "{", ":", "|", ":", "&", "}", ";", ":">> }

DefaultTimeout == 60

\* stdout, then stderr under the separator when both are there, then the
\* exit code when it is not 0; stripped, "(no output)" when nothing is left
FormatOutput(proc) ==
    LET out1 == proc.stdout
        out2 == IF proc.stderr = <<>> THEN out1
                ELSE IF out1 # <<>> THEN out1 \o <<"\n", "--- stderr ---", "\n">> \o proc.stderr
                ELSE proc.stderr
        out3 == IF proc.returncode # 0
                THEN out2 \o <<"\n", "(exit code: {returncode})">>
                ELSE out2
    IN  IF Strip(out3) = <<>> THEN CommandOutput(<<"(no output)">>)
        ELSE CommandOutput(Strip(out3))

\* the shell command `cat ../o/f`
CatOutside == <<"c", "a", "t", " ", ".", ".", "/", "o", "/", "f">>

\* the file the shell opens for a command, run in directory cwd
ShellReads(fs, cwd, command) ==
    IF command = CatOutside /\ IsFile(fs, Resolve(fs, cwd \o <<DotDot, n_o, n_f>>))
    THEN {Resolve(fs, cwd \o <<DotDot, n_o, n_f>>)}
    ELSE {}

\* what the finished subprocess hands back: `cat` prints the file it opened
\* (text=True decodes the pipe with universal newlines), any other command
\* what the operating system made of it
Completed(fs, cwd, command, proc) ==
    IF ShellReads(fs, cwd, command) = {} THEN proc
    ELSE [proc EXCEPT !.stdout =
             read_text(fs[CHOOSE p \in ShellReads(fs, cwd, command) : TRUE].content)]

\* whether the subprocess is still running when the timeout expires
Outlives(proc, timeout) == proc.never \/ proc.duration > timeout

\* a run_command that waits for the subprocess however long it takes
run_command_unbounded(fs, env, workspace, command, timeout) ==
    IF command.t # "str" THEN Raised(fs, "AttributeError")
    ELSE IF \E b \in BlockedPatterns : Contains(Lower(command.v), b)
         THEN Returned(fs, Blocked)
    ELSE LET cwd == Resolve(fs, workspace)
             started == [command |-> command.v, cwd |-> cwd, timeout |-> timeout,
                         killed |-> FALSE] IN
         [Returned(fs, FormatOutput(Completed(fs, cwd, command.v, env.proc)))
             EXCEPT !.spawned = <<started>>]

\* a run_command that starts the subprocess before it looks at the denylist
run_command_unchecked(fs, env, workspace, command, timeout) ==
    IF command.t # "str" THEN Raised(fs, "AttributeError")
    ELSE LET cwd == Resolve(fs, workspace)
             started == [command |-> command.v, cwd |-> cwd, timeout |-> timeout,
                         killed |-> FALSE] IN
         IF \E b \in BlockedPatterns : Contains(Lower(command.v), b)
         THEN [Returned(fs, Blocked) EXCEPT !.spawned = <<started>>]
         ELSE [Returned(fs, FormatOutput(Completed(fs, cwd, command.v, env.proc)))
                  EXCEPT !.spawned = <<started>>]

\* subprocess.run kills the subprocess and waits for it whenever communicate
\* raises: a timeout that is no number (TypeError) or that expires
run_command(fs, env, workspace, command, timeout) ==
    IF command.t # "str" THEN Raised(fs, "AttributeError")
    ELSE IF \E b \in BlockedPatterns : Contains(Lower(command.v), b)
         THEN Returned(fs, Blocked)
    ELSE LET cwd == Resolve(fs, workspace)
             started == [command |-> command.v, cwd |-> cwd, timeout |-> timeout,
                         killed |-> FALSE]
             killed == [started EXCEPT !.killed = TRUE] IN
         IF env.proc.oserror
         THEN [Raised(fs, "OSError") EXCEPT !.spawned = <<started>>]
         ELSE IF timeout.t # "int"
              THEN [Raised(fs, "TypeError") EXCEPT !.spawned = <<killed>>]
         ELSE IF Outlives(env.proc, timeout.v)
              THEN [Returned(fs, TimedOut(timeout.v)) EXCEPT !.spawned = <<killed>>]
         ELSE [Returned(fs, FormatOutput(Completed(fs, cwd, command.v, env.proc)))
                  EXCEPT !.spawned = <<started>>,
                         !.read = ShellReads(fs, cwd, command.v)]

\* ------------------------------------------------------------------ executor
\* the parameters of each registered function, `workspace` apart
Signature ==
    [ read_file      |-> [required |-> {"path"}, optional |-> {}],
      write_file     |-> [required |-> {"path", "content"}, optional |-> {}],
      edit_file      |-> [required |-> {"path", "old_string", "new_string"},
                          optional |-> {}],
      list_directory |-> [required |-> {"path"}, optional |-> {}],
      search_files   |-> [required |-> {"pattern"}, optional |-> {"file_glob"}],
      run_command    |-> [required |-> {"command"}, optional |-> {"timeout"}],
      delete_file    |-> [required |-> {"path"}, optional |-> {}],
      think          |-> [required |-> {"thought"}, optional |-> {}] ]

TOOL_REGISTRY == DOMAIN Signature

\* a binding that takes every keyword it is given, `workspace` included
Binds_any_keyword(name, arguments) ==
    Signature[name].required \subseteq DOMAIN arguments

\* whether Python can bind `fn(workspace=workspace, **arguments)`
Binds(name, arguments) ==
    /\ "workspace" \notin DOMAIN arguments
    /\ DOMAIN arguments \subseteq Signature[name].required \cup Signature[name].optional
    /\ Signature[name].required \subseteq DOMAIN arguments

Arg(arguments, key, default) ==
    IF key \in DOMAIN arguments THEN arguments[key] ELSE default

\* TOOL_REGISTRY[name](workspace=workspace, **arguments)
CallTool(fs, env, name, arguments, workspace) ==
    IF ~Binds(name, arguments) THEN Raised(fs, "TypeError")
    ELSE CASE name = "read_file" ->
                read_file(fs, env, workspace, arguments["path"])
           [] name = "write_file" ->
                write_file(fs, env, workspace, arguments["path"], arguments["content"])
           [] name = "edit_file" ->
                edit_file(fs, env, workspace, arguments["path"],
                          arguments["old_string"], arguments["new_string"])
           [] name = "list_directory" ->
                list_directory(fs, env, workspace, arguments["path"])
           [] name = "search_files" ->
                search_files(fs, env, workspace, arguments["pattern"],
                             Arg(arguments, "file_glob", StrVal(AllFilesGlob)))
           [] name = "run_command" ->
                run_command(fs, env, workspace, arguments["command"],
                            Arg(arguments, "timeout", IntVal(DefaultTimeout)))
           [] name = "delete_file" ->
                delete_file(fs, env, workspace, arguments["path"])
           [] name = "think" ->
                think(fs, env, workspace, arguments["thought"])

\* an executor that lets the exception of the tool through
execute_tool_uncaught(fs, env, name, arguments, workspace) ==
    IF name \notin TOOL_REGISTRY THEN Returned(fs, UnknownTool(name))
    ELSE CallTool(fs, env, name, arguments, workspace)

\* an executor that looks the name up without testing for it first, so that
\* the KeyError of the lookup is reported like a fault of a tool
execute_tool_unguarded(fs, env, name, arguments, workspace) ==
    LET done == IF name \in TOOL_REGISTRY
                THEN CallTool(fs, env, name, arguments, workspace)
                ELSE Raised(fs, "KeyError") IN
    IF done.raised
    THEN [done EXCEPT !.raised = FALSE, !.value = ErrorExecuting(name, done.value)]
    ELSE done

execute_tool(fs, env, name, arguments, workspace) ==
    IF name \notin TOOL_REGISTRY THEN Returned(fs, UnknownTool(name))
    ELSE LET done == CallTool(fs, env, name, arguments, workspace) IN
         IF done.raised
         THEN [done EXCEPT !.raised = FALSE, !.value = ErrorExecuting(name, done.value)]
         ELSE done

\* ------------------------------------------------------------------ agent data
SYSTEM_PROMPT == "You are **Vics Agent**, ..."
CeilingMessage == "Reached maximum iterations. Here's what I accomplished so far."

NoId == 0
NoName == "None"

\* llm.Message
Message(role, content, tool_calls, tool_call_id, name) ==
    [role |-> role, content |-> content, tool_calls |-> tool_calls,
     tool_call_id |-> tool_call_id, name |-> name]

SystemMessage == Message("system", SYSTEM_PROMPT, <<>>, NoId, NoName)
UserMessage(text) == Message("user", text, <<>>, NoId, NoName)
AssistantMessage(text, tool_calls) == Message("assistant", text, tool_calls, NoId, NoName)
ToolMessage(text, id, name) == Message("tool", text, <<>>, id, name)

\* one entry of Message.tool_calls
ToolCall(id, name, arguments) ==
    [id |-> id, type |-> "function",
     function |-> [name |-> name, arguments |-> arguments]]

\* the argument payload as the provider sends it: JSON text of an object, JSON
\* text of something else, or text that is no JSON
JsonObject(dict) == [json |-> "object", value |-> dict]
JsonArray == [json |-> "array", value |-> <<>>]
JsonNull == [json |-> "null", value |-> <<>>]
NotJson == [json |-> "invalid", value |-> <<>>]

\* json.loads: the Python value, or JSONDecodeError
json_loads(text) ==
    IF text.json = "invalid" THEN [raised |-> TRUE, type |-> "JSONDecodeError", value |-> <<>>]
    ELSE [raised |-> FALSE,
          type |-> CASE text.json = "object" -> "dict"
                     [] text.json = "array" -> "list"
                     [] text.json = "null" -> "NoneType",
          value |-> text.value]

\* `try: fn_args = json.loads(...) except json.JSONDecodeError: fn_args = {}`
ParseArguments(text) ==
    LET got == json_loads(text) IN
    IF got.raised THEN [type |-> "dict", value |-> <<>>]
    ELSE [type |-> got.type, value |-> got.value]

\* ------------------------------------------------------------------ inputs
\* the workspace root of the agent, resolved (Agent.__init__)
Workspace == <<n_w>>

Rel(parts) == StrVal(PathText(FALSE, parts))
Abs(parts) == StrVal(PathText(TRUE, parts))

Text_aa == <<"a", "a">>
Text_b == <<"b">>
Text_bCR == <<"b", "\r">>
Text_x == <<"x">>
\* one character that takes two bytes
Text_eAcute == <<"U+E9">>

\* the filesystem the checked behaviours start from: the workspace /w with a
\* file, two symlinks that leave the workspace (to a directory and to a
\* file), the sibling /w2 and /o outside
InitialFs ==
    [p \in {<<>>, <<n_w>>, <<n_w, n_f>>, <<n_w, n_l>>, <<n_w, n_m>>, <<n_w2>>, <<n_o>>,
            <<n_o, n_f>>}
       |-> CASE p = <<n_w, n_f>> -> FileNode(Text_aa)
             [] p = <<n_o, n_f>> -> FileNode(Text_b)
             [] p = <<n_w, n_l>> -> LinkNode(<<n_o>>)
             [] p = <<n_w, n_m>> -> LinkNode(<<n_o, n_f>>)
             [] OTHER -> DirNode]

NoProc == [oserror |-> FALSE, never |-> FALSE, duration |-> 0, stdout |-> <<>>,
           stderr |-> <<>>, returncode |-> 0]

\* what a subprocess may do: fail to start, run past a timeout of 1 s, never
\* end, or end
ProcOutcomes ==
    { NoProc,
      [NoProc EXCEPT !.oserror = TRUE],
      [NoProc EXCEPT !.duration = 2],
      [NoProc EXCEPT !.never = TRUE],
      [NoProc EXCEPT !.stdout = <<"h", "i", "\n">>],
      [NoProc EXCEPT !.stderr = <<"e">>, !.returncode = 1],
      [NoProc EXCEPT !.stdout = <<"h", "i", "\n">>, !.stderr = <<"e">>] }

Env(io_fault, proc, order) == [io_fault |-> io_fault, proc |-> proc, order |-> order]

FileTools == {"read_file", "write_file", "edit_file", "list_directory", "delete_file"}

\* the behaviours of the operating system that a call can meet
EnvsFor(fs, name, arguments, workspace) ==
    IF name = "run_command"
    THEN {Env(FALSE, p, <<>>) : p \in ProcOutcomes}
    ELSE IF name = "search_files"
    THEN LET glob == Arg(arguments, "file_glob", StrVal(AllFilesGlob)) IN
         {Env(io, NoProc, o) :
             io \in BOOLEAN,
             o \in ScanOrders(fs, workspace, IF glob.t = "str" THEN glob.v ELSE AllFilesGlob)}
    ELSE IF name \in FileTools
    THEN {Env(io, NoProc, <<>>) : io \in BOOLEAN}
    ELSE {Env(FALSE, NoProc, <<>>)}

\* the behaviours of the operating system the agent's tool calls meet: no I/O
\* fault; a subprocess ends at once without output or outlives a 1 s timeout
AgentEnvsFor(fs, name, arguments, workspace) ==
    {env \in EnvsFor(fs, name, arguments, workspace) :
        /\ ~env.io_fault
        /\ env.proc \in {NoProc, [NoProc EXCEPT !.duration = 2]}}

Request(name, arguments) == [name |-> name, arguments |-> arguments]

ReadF == Request("read_file", JsonObject([path |-> Rel(<<n_f>>)]))

\* the tool requests the model may send besides ReadF, one per behaviour
OtherRequests ==
    { Request("write_file", JsonObject([path |-> Rel(<<n_f>>), content |-> StrVal(Text_b)])),
      Request("read_file", JsonObject([path |-> Rel(<<DotDot, n_o, n_f>>)])),
      Request("delete_file", JsonObject([path |-> Rel(<<n_d>>)])),
      Request("edit_file", JsonObject([path |-> Rel(<<n_f>>), old_string |-> StrVal(<<"a">>),
                                       new_string |-> StrVal(Text_b)])),
      Request("run_command", JsonObject([command |-> StrVal(<<"r", "m", " ", "-", "r", "f", " ", "/">>)])),
      Request("run_command", JsonObject([command |-> StrVal(<<"s", "l", "e", "e", "p">>),
                                         timeout |-> IntVal(1)])),
      Request("nope", JsonObject(<<>>)),
      Request("read_file", NotJson),
      Request("read_file", JsonArray),
      Request("think", JsonNull) }

Menus == {{ReadF, r} : r \in OtherRequests}

UserTexts == {"do X"}
AssistantTexts == {"", "done"}
\* the text of an assistant turn that carries tool calls
ToolTurnTexts == {""}

RECURSIVE SeqsUpTo(_, _)
\* the non-empty sequences over S of length at most n
SeqsUpTo(S, n) ==
    IF n = 0 THEN {}
    ELSE LET shorter == SeqsUpTo(S, n - 1) IN
         {<<x>> : x \in S} \cup shorter \cup {Append(q, x) : q \in shorter, x \in S}

\* ------------------------------------------------------------------ state
VARIABLES
    fs,          \* the filesystem
    messages,    \* Agent.messages
    pc,          \* where the agent is: Idle, Thinking, ExecutingTools, Done, Ceiling, Raised
    iteration,   \* the loop variable of Agent.run
    response,    \* the assistant message whose tool calls are being executed
    tc_index,    \* the position of the loop over response.tool_calls
    returned,    \* what the last run returned or raised
    menu,        \* the tool requests the model chooses from
    child,       \* the subprocess a run_command in progress waits for
    llm,         \* the last call of LLMClient.chat: what it was given, sent and got
    last         \* the last call of execute_tool: its inputs and what it did

vars == <<fs, messages, pc, iteration, response, tc_index, returned, menu, child, llm, last>>

NoResponse == Message("none", "", <<>>, NoId, NoName)
NoReturn == [kind |-> "none", value |-> ""]
NoCall == [called |-> FALSE]
NoChild == [state |-> "none"]
NoChat == [called |-> FALSE]
Call(name, arguments, env, before, outcome) ==
    [called |-> TRUE, name |-> name, arguments |-> arguments, env |-> env,
     before |-> before, outcome |-> outcome]

Resting == {"Idle", "Done", "Ceiling", "Raised"}

\* the state Agent.__init__ leaves
Init ==
    /\ fs = InitialFs
    /\ messages = <<SystemMessage>>
    /\ pc = "Idle"
    /\ iteration = 0
    /\ response = NoResponse
    /\ tc_index = 0
    /\ returned = NoReturn
    /\ menu \in Menus
    /\ child = NoChild
    /\ llm = NoChat
    /\ last = NoCall

\* ------------------------------------------------------------------ agent loop
Max(S) == IF S = {} THEN 0 ELSE CHOOSE x \in S : \A y \in S : y <= x

\* the ids of the tool calls of a conversation
IdsOf(msgs) ==
    UNION {{msgs[k].tool_calls[i].id : i \in 1..Len(msgs[k].tool_calls)} : k \in 1..Len(msgs)}

\* the provider numbers the tool calls of a response with ids it has not used
WithIds(batch, msgs) ==
    [i \in 1..Len(batch) |->
        ToolCall(Max(IdsOf(msgs)) + i, batch[i].name, batch[i].arguments)]

Return(value) == [kind |-> "return", value |-> value]
Raise(type) == [kind |-> "raise", value |-> type]

\* a run that starts the conversation over instead of appending to it
RunStartsOver(user_input) ==
    /\ pc \in Resting
    /\ Len(messages) < MaxLen
    /\ messages' = <<SystemMessage, UserMessage(user_input)>>
    /\ iteration' = 1
    /\ pc' = "Thinking"
    /\ response' = NoResponse
    /\ tc_index' = 0
    /\ returned' = NoReturn
    /\ UNCHANGED <<fs, menu, child, llm, last>>

\* Agent.run up to the first model call: the user turn is appended
Run(user_input) ==
    /\ pc \in Resting
    /\ Len(messages) < MaxLen
    /\ messages' = Append(messages, UserMessage(user_input))
    /\ iteration' = 1
    /\ pc' = "Thinking"
    /\ response' = NoResponse
    /\ tc_index' = 0
    /\ returned' = NoReturn
    /\ UNCHANGED <<fs, menu, child, llm, last>>

\* llm.chat returns a turn without tool calls: run returns its text
ChatAnswers(content) ==
    /\ pc = "Thinking"
    /\ Len(messages) < MaxLen
    /\ messages' = Append(messages, AssistantMessage(content, <<>>))
    /\ pc' = "Done"
    /\ returned' = Return(content)
    /\ UNCHANGED <<fs, iteration, response, tc_index, menu, child, llm, last>>

\* llm.chat returns a turn with tool calls: the loop over them starts
ChatRequestsTools(content, batch) ==
    /\ pc = "Thinking"
    /\ Len(messages) < MaxLen
    /\ LET turn == AssistantMessage(content, WithIds(batch, messages)) IN
       /\ messages' = Append(messages, turn)
       /\ response' = turn
    /\ tc_index' = 1
    /\ pc' = "ExecutingTools"
    /\ UNCHANGED <<fs, iteration, returned, menu, child, llm, last>>

\* a model call that fails after a turn was appended for it
ChatRaisesAfterAppend ==
    /\ pc = "Thinking"
    /\ pc' = "Raised"
    /\ returned' = Raise("TransportFault")
    /\ messages' = Append(messages, AssistantMessage("", <<>>))
    /\ UNCHANGED <<fs, iteration, response, tc_index, menu, child, llm, last>>

\* llm.chat raises: the exception leaves run
ChatRaises ==
    /\ pc = "Thinking"
    /\ pc' = "Raised"
    /\ returned' = Raise("TransportFault")
    /\ UNCHANGED <<fs, messages, iteration, response, tc_index, menu, child, llm, last>>

\* a loop that appends the ceiling message to the conversation as it returns it
ExecuteToolCall_announces ==
    /\ pc = "ExecutingTools"
    /\ LET tc == response.tool_calls[tc_index]
           fn_name == tc.function.name
           fn_args == ParseArguments(tc.function.arguments)
       IN  IF fn_args.type # "dict"
           THEN /\ pc' = "Raised"
                /\ returned' = Raise("AttributeError")
                /\ response' = NoResponse
                /\ tc_index' = 0
                /\ UNCHANGED <<fs, messages, iteration, menu, child, llm, last>>
           ELSE \E env \in AgentEnvsFor(fs, fn_name, fn_args.value, Workspace) :
                /\ last' = Call(fn_name, fn_args.value, env, fs,
                                execute_tool(fs, env, fn_name, fn_args.value, Workspace))
                /\ fs' = last'.outcome.fs
                /\ IF tc_index < Len(response.tool_calls)
                   THEN /\ tc_index' = tc_index + 1
                        /\ messages' = Append(messages,
                                              ToolMessage(last'.outcome.value, tc.id, fn_name))
                        /\ UNCHANGED <<pc, iteration, response, returned>>
                   ELSE /\ tc_index' = 0
                        /\ response' = NoResponse
                        /\ IF iteration < MaxIterations
                           THEN /\ iteration' = iteration + 1
                                /\ pc' = "Thinking"
                                /\ messages' = Append(messages,
                                                      ToolMessage(last'.outcome.value, tc.id,
                                                                  fn_name))
                                /\ UNCHANGED returned
                           ELSE /\ pc' = "Ceiling"
                                /\ returned' = Return(CeilingMessage)
                                /\ messages' = messages
                                                \o <<ToolMessage(last'.outcome.value, tc.id,
                                                                 fn_name),
                                                     AssistantMessage(CeilingMessage, <<>>)>>
                                /\ UNCHANGED iteration
                /\ UNCHANGED <<menu, child, llm>>

\* one pass of `for tc in response.tool_calls`
ExecuteToolCall ==
    /\ pc = "ExecutingTools"
    /\ LET tc == response.tool_calls[tc_index]
           fn_name == tc.function.name
           fn_args == ParseArguments(tc.function.arguments)
       IN  IF fn_args.type # "dict"
           THEN \* fn_args.items() of a value that is no dict
                /\ pc' = "Raised"
                /\ returned' = Raise("AttributeError")
                /\ response' = NoResponse
                /\ tc_index' = 0
                /\ UNCHANGED <<fs, messages, iteration, menu, child, llm, last>>
           ELSE \E env \in AgentEnvsFor(fs, fn_name, fn_args.value, Workspace) :
                /\ last' = Call(fn_name, fn_args.value, env, fs,
                                execute_tool(fs, env, fn_name, fn_args.value, Workspace))
                /\ fs' = last'.outcome.fs
                /\ messages' = Append(messages,
                                      ToolMessage(last'.outcome.value, tc.id, fn_name))
                /\ IF tc_index < Len(response.tool_calls)
                   THEN /\ tc_index' = tc_index + 1
                        /\ UNCHANGED <<pc, iteration, response, returned>>
                   ELSE /\ tc_index' = 0
                        /\ response' = NoResponse
                        /\ IF iteration < MaxIterations
                           THEN /\ iteration' = iteration + 1
                                /\ pc' = "Thinking"
                                /\ UNCHANGED returned
                           ELSE /\ pc' = "Ceiling"
                                /\ returned' = Return(CeilingMessage)
                                /\ UNCHANGED iteration
                /\ UNCHANGED <<menu, child, llm>>

\* a reset that keeps the first exchange
ResetKeepsFirstTurn ==
    /\ pc \in Resting
    /\ messages' = SubSeq(messages, 1, IF Len(messages) < 2 THEN Len(messages) ELSE 2)
    /\ pc' = "Idle"
    /\ iteration' = 0
    /\ returned' = NoReturn
    /\ UNCHANGED <<fs, response, tc_index, menu, child, llm, last>>

\* Agent.reset
Reset ==
    /\ pc \in Resting
    /\ messages' = <<SystemMessage>>
    /\ pc' = "Idle"
    /\ iteration' = 0
    /\ returned' = NoReturn
    /\ UNCHANGED <<fs, response, tc_index, menu, child, llm, last>>

Next ==
    \/ \E user_input \in UserTexts : Run(user_input)
    \/ \E content \in AssistantTexts : ChatAnswers(content)
    \/ \E content \in ToolTurnTexts, batch \in SeqsUpTo(menu, MaxBatch) :
          ChatRequestsTools(content, batch)
    \/ ChatRaises
    \/ ExecuteToolCall
    \/ Reset

Spec == Init /\ [][Next]_vars

\* ------------------------------------------------------------------ model client
\* tools.TOOL_SCHEMAS: one declaration for each @tool, in the order of
\* registration; a parameter schema is given by the types of its properties
\* and the required ones
TOOL_SCHEMAS ==
    LET Declare(name, description, properties, required) ==
            [type |-> "function",
             function |-> [name |-> name, description |-> description,
                           parameters |-> [type |-> "object", properties |-> properties,
                                           required |-> required]]]
    IN  << Declare("read_file",
                   "Read the contents of a file. Returns the full text content.",
                   [path |-> "string"], <<"path">>),
           Declare("write_file",
                   "Write content to a file. Creates the file and parent directories if they don't exist. Overwrites existing content.",
                   [path |-> "string", content |-> "string"], <<"path", "content">>),
           Declare("edit_file",
                   "Replace an exact string in a file with a new string. Use this for targeted edits.",
                   [path |-> "string", old_string |-> "string", new_string |-> "string"],
                   <<"path", "old_string", "new_string">>),
           Declare("list_directory",
                   "List files and directories in a given path. Returns names with '/' suffix for directories.",
                   [path |-> "string"], <<"path">>),
           Declare("search_files",
                   "Search for a text pattern across files in the workspace. Returns matching lines with file paths and line numbers.",
                   [pattern |-> "string", file_glob |-> "string"], <<"pattern">>),
           Declare("run_command",
                   "Execute a shell command in the workspace directory. Returns stdout and stderr. Use for running tests, installing packages, building projects, etc.",
                   [command |-> "string", timeout |-> "integer"], <<"command">>),
           Declare("delete_file", "Delete a file from the workspace.",
                   [path |-> "string"], <<"path">>),
           Declare("think",
                   "Use this tool to think through complex problems step by step. Your thoughts are private and not shown to the user.",
                   [thought |-> "string"], <<"thought">>) >>

\* the configurations AgentConfig.from_env builds: the provider with its
\* model, and the defaults of LLMConfig for temperature and max_tokens
Configs ==
    { [provider |-> "openai", model |-> "gpt-4o", temperature |-> "0.1",
       max_tokens |-> 4096],
      [provider |-> "anthropic", model |-> "claude-sonnet-4-20250514",
       temperature |-> "0.1", max_tokens |-> 4096] }

\* a key that a dict gets only under a condition
Opt(condition, entries) == IF condition THEN entries ELSE <<>>

\* an attribute of a provider's response that may be None
None == [none |-> TRUE]
Some(v) == [none |-> FALSE, v |-> v]

\* json.dumps of a value that json.loads returned
json_dumps(value) ==
    CASE value.type = "dict" -> JsonObject(value.value)
      [] value.type = "list" -> JsonArray
      [] value.type = "NoneType" -> JsonNull

\* _chat_openai: one entry of `formatted`
OpenAIEntry(m) ==
    [role |-> m.role, content |-> m.content]
       @@ Opt(m.tool_calls # <<>>, [tool_calls |-> m.tool_calls])
       @@ Opt(m.tool_call_id # NoId, [tool_call_id |-> m.tool_call_id])
       @@ Opt(m.name # NoName, [name |-> m.name])

\* _chat_openai: the keyword arguments of chat.completions.create
OpenAIRequest(config, msgs, tools) ==
    [model |-> config.model,
     messages |-> [k \in 1..Len(msgs) |-> OpenAIEntry(msgs[k])],
     temperature |-> config.temperature,
     max_tokens |-> config.max_tokens]
       @@ Opt(tools # <<>>, [tools |-> tools, tool_choice |-> "auto"])

\* _chat_openai: the Message made of response.choices[0].message
ParseOpenAI(reply) ==
    AssistantMessage(IF reply.content.none THEN "" ELSE reply.content.v,
                     IF reply.tool_calls.none THEN <<>>
                     ELSE [i \in 1..Len(reply.tool_calls.v) |->
                              ToolCall(reply.tool_calls.v[i].id,
                                       reply.tool_calls.v[i].function.name,
                                       reply.tool_calls.v[i].function.arguments)])

\* _chat_anthropic: `system_text`, the content of the last system message
SystemText(msgs) ==
    LET systems == SelectSeq(msgs, LAMBDA m : m.role = "system") IN
    IF systems = <<>> THEN "" ELSE systems[Len(systems)].content

\* an adapter that sends every message with its own role and content
AnthropicMessage_plain(m) == [role |-> m.role, content |-> m.content]

\* _chat_anthropic: the entry of `api_messages` for a message that is no
\* system message
AnthropicMessage(m) ==
    IF m.role = "tool"
    THEN [role |-> "user",
          content |-> << [type |-> "tool_result", tool_use_id |-> m.tool_call_id,
                          content |-> m.content] >>]
    ELSE IF m.tool_calls # <<>>
    THEN [role |-> "assistant",
          content |-> (IF m.content # "" THEN << [type |-> "text", text |-> m.content] >>
                       ELSE <<>>)
                      \o [i \in 1..Len(m.tool_calls) |->
                            [type |-> "tool_use",
                             id |-> m.tool_calls[i].id,
                             name |-> m.tool_calls[i].function.name,
                             input |-> LET got == json_loads(m.tool_calls[i].function.arguments)
                                       IN  [type |-> got.type, value |-> got.value]]]]
    ELSE [role |-> m.role, content |-> m.content]

\* _chat_anthropic: json.loads of the arguments of a tool call raises
AnthropicRaises(msgs) ==
    \E k \in 1..Len(msgs) :
       /\ msgs[k].role \notin {"system", "tool"}
       /\ \E i \in 1..Len(msgs[k].tool_calls) :
             json_loads(msgs[k].tool_calls[i].function.arguments).raised

\* _chat_anthropic: the declarations in the form of the Messages API
AnthropicTools(tools) ==
    [i \in 1..Len(tools) |->
        [name |-> tools[i].function.name,
         description |-> tools[i].function.description,
         input_schema |-> tools[i].function.parameters]]

\* _chat_anthropic: the keyword arguments of messages.create
AnthropicRequest(config, msgs, tools) ==
    LET others == SelectSeq(msgs, LAMBDA m : m.role # "system") IN
    [model |-> config.model,
     max_tokens |-> config.max_tokens,
     messages |-> [k \in 1..Len(others) |-> AnthropicMessage(others[k])]]
       @@ Opt(SystemText(msgs) # "", [system |-> SystemText(msgs)])
       @@ Opt(tools # <<>>, [tools |-> AnthropicTools(tools)])

RECURSIVE JoinLines(_)
\* "\n".join(text_parts)
JoinLines(text_parts) ==
    IF text_parts = <<>> THEN ""
    ELSE IF Len(text_parts) = 1 THEN text_parts[1]
    ELSE text_parts[1] \o "\n" \o JoinLines(Tail(text_parts))

\* _chat_anthropic: the Message made of response.content
ParseAnthropic(reply) ==
    LET texts == SelectSeq(reply.content, LAMBDA block : block.type = "text")
        uses == SelectSeq(reply.content, LAMBDA block : block.type = "tool_use")
    IN  AssistantMessage(JoinLines([i \in 1..Len(texts) |-> texts[i].text]),
                         [i \in 1..Len(uses) |->
                             ToolCall(uses[i].id, uses[i].name, json_dumps(uses[i].input))])

\* LLMClient.chat up to the call of the provider: the request, or the
\* exception that building it raises
BuildRequest(config, msgs, tools) ==
    IF config.provider = "openai"
    THEN [raised |-> FALSE, kwargs |-> OpenAIRequest(config, msgs, tools)]
    ELSE IF AnthropicRaises(msgs)
    THEN [raised |-> TRUE, kwargs |-> <<>>]
    ELSE [raised |-> FALSE, kwargs |-> AnthropicRequest(config, msgs, tools)]

\* LLMClient.chat after the call of the provider
ParseReply(config, reply) ==
    IF config.provider = "openai" THEN ParseOpenAI(reply) ELSE ParseAnthropic(reply)

\* ------------------------------------------------------------------ model replies
ReadF_args == JsonObject([path |-> Rel(<<n_f>>)])
WriteF_args == JsonObject([path |-> Rel(<<n_f>>), content |-> StrVal(Text_b)])

\* what chat.completions.create may return after the conversation msgs: no
\* content and no tool calls, a text, one tool call without content, and two
\* tool calls with a text, the second with arguments that are no JSON
OpenAIReplies(msgs) ==
    LET fresh == Max(IdsOf(msgs))
        Fn(id, name, arguments) ==
            [id |-> id, type |-> "function",
             function |-> [name |-> name, arguments |-> arguments]]
    IN  { [content |-> None, tool_calls |-> None],
          [content |-> Some("done"), tool_calls |-> None],
          [content |-> None,
           tool_calls |-> Some(<<Fn(fresh + 1, "read_file", ReadF_args)>>)],
          [content |-> Some("on it"),
           tool_calls |-> Some(<<Fn(fresh + 1, "write_file", WriteF_args),
                                 Fn(fresh + 2, "read_file", NotJson)>>)] }

\* what messages.create may return after the conversation msgs: no block, one
\* text, two texts, one tool use, and texts and tool uses in turn
AnthropicReplies(msgs) ==
    LET fresh == Max(IdsOf(msgs))
        TextBlock(text) == [type |-> "text", text |-> text]
        ToolUse(id, name, dict) ==
            [type |-> "tool_use", id |-> id, name |-> name,
             input |-> [type |-> "dict", value |-> dict]]
    IN  { [content |-> <<>>],
          [content |-> <<TextBlock("done")>>],
          [content |-> <<TextBlock("all"), TextBlock("done")>>],
          [content |-> <<ToolUse(fresh + 1, "read_file", ReadF_args.value)>>],
          [content |-> <<TextBlock("first"),
                         ToolUse(fresh + 1, "write_file", WriteF_args.value),
                         TextBlock("then"),
                         ToolUse(fresh + 2, "read_file", ReadF_args.value)>>] }

Replies(config, msgs) ==
    IF config.provider = "openai" THEN OpenAIReplies(msgs) ELSE AnthropicReplies(msgs)

\* ------------------------------------------------------------------ agent loop with the client
NoReply == [failed |-> TRUE]

\* the client of an agent that has not called its provider
Client(config) == [called |-> FALSE, config |-> config]

\* a call of LLMClient.chat: the messages it was given, the request it sent,
\* the response of the provider and the Message it returned
ChatCall(config, msgs, kwargs, reply, turn) ==
    [called |-> TRUE, config |-> config, messages |-> msgs, request |-> kwargs,
     reply |-> reply, turn |-> turn]

InitChat ==
    /\ fs = InitialFs
    /\ messages = <<SystemMessage>>
    /\ pc = "Idle"
    /\ iteration = 0
    /\ response = NoResponse
    /\ tc_index = 0
    /\ returned = NoReturn
    /\ menu = {}
    /\ child = NoChild
    /\ llm \in {Client(config) : config \in Configs}
    /\ last = NoCall

\* `response = self.llm.chat(self.messages, tools=TOOL_SCHEMAS)` and what run
\* does with the response: it is appended, and either its text is returned or
\* the loop over its tool calls starts
Chat(reply) ==
    /\ pc = "Thinking"
    /\ Len(messages) < MaxLen
    /\ LET request == BuildRequest(llm.config, messages, TOOL_SCHEMAS) IN
       IF request.raised
       THEN /\ pc' = "Raised"
            /\ returned' = Raise("JSONDecodeError")
            /\ UNCHANGED <<fs, messages, iteration, response, tc_index, menu, child, llm,
                           last>>
       ELSE LET turn == ParseReply(llm.config, reply) IN
            /\ llm' = ChatCall(llm.config, messages, request.kwargs, reply, turn)
            /\ messages' = Append(messages, turn)
            /\ IF turn.tool_calls = <<>>
               THEN /\ pc' = "Done"
                    /\ returned' = Return(turn.content)
                    /\ UNCHANGED <<response, tc_index>>
               ELSE /\ pc' = "ExecutingTools"
                    /\ response' = turn
                    /\ tc_index' = 1
                    /\ UNCHANGED returned
            /\ UNCHANGED <<fs, iteration, menu, child, last>>

\* the provider's client raises after the request was sent: the exception
\* leaves run
ChatFails ==
    /\ pc = "Thinking"
    /\ LET request == BuildRequest(llm.config, messages, TOOL_SCHEMAS) IN
       /\ ~request.raised
       /\ llm' = ChatCall(llm.config, messages, request.kwargs, NoReply, NoResponse)
    /\ pc' = "Raised"
    /\ returned' = Raise("TransportFault")
    /\ UNCHANGED <<fs, messages, iteration, response, tc_index, menu, child, last>>

NextChat ==
    \/ \E user_input \in UserTexts : Run(user_input)
    \/ \E reply \in Replies(llm.config, messages) : Chat(reply)
    \/ ChatFails
    \/ ExecuteToolCall
    \/ Reset

ChatSpec == InitChat /\ [][NextChat]_vars

\* ------------------------------------------------------------------ direct calls
\* the executor called as the tests call it, on the workspace /w
PathArgs ==
    { Rel(<<n_f>>), Rel(<<n_d, n_f>>), Rel(<<>>),
      Rel(<<DotDot, n_w2, n_f>>), Rel(<<DotDot, n_w2>>),
      Rel(<<DotDot, n_o, n_f>>), Abs(<<n_o, n_f>>),
      Rel(<<n_l, n_f>>),
      IntVal(5) }

\* the paths of files, for the calls that need one
FilePathArgs == {p \in PathArgs : p.t = "str" /\ p.v.parts # <<>> /\ p.v.parts[Len(p.v.parts)] = n_f}

\* what is written to the file f of the workspace; the other paths are
\* written with the first text only
Contents == {StrVal(Text_aa), StrVal(Text_b), StrVal(Text_bCR), StrVal(Text_eAcute)}
OldStrings == {StrVal(<<"a">>), StrVal(Text_b), StrVal(Text_x)}
Commands ==
    { StrVal(<<"e", "c", "h", "o">>),
      StrVal(<<"R", "m", " ", "-", "r", "f", " ", "/", " ", "x">>),
      StrVal(<<"r", "m", " ", "-", "r", "f", " ", "/">>),
      StrVal(CatOutside),
      IntVal(5) }

DirectCalls ==
    {Request("read_file", [path |-> p]) : p \in PathArgs}
    \cup {Request("write_file", [path |-> p, content |-> StrVal(Text_aa)]) : p \in PathArgs}
    \cup {Request("write_file", [path |-> Rel(<<n_f>>), content |-> c]) : c \in Contents}
    \cup {Request("write_file", [path |-> Rel(<<n_d, n_f>>), content |-> IntVal(5)])}
    \cup {Request("edit_file", [path |-> p, old_string |-> o, new_string |-> StrVal(Text_x)]) :
             p \in FilePathArgs, o \in OldStrings}
    \cup {Request("list_directory", [path |-> p]) : p \in PathArgs}
    \cup {Request("list_directory", [path |-> Rel(<<n_d>>)])}
    \cup {Request("delete_file", [path |-> p]) : p \in PathArgs}
    \cup {Request("think", [thought |-> t]) : t \in {StrVal(Text_aa), IntVal(5)}}
    \cup {Request("think", <<>>)}
    \cup {Request("search_files", [pattern |-> StrVal(<<"B">>)]),
          Request("search_files", [pattern |-> StrVal(<<"a">>), file_glob |-> StrVal(n_f)])}
    \cup {Request("run_command", [command |-> c]) : c \in Commands}
    \cup {Request("run_command", [command |-> StrVal(<<"e", "c", "h", "o">>), timeout |-> t]) :
             t \in {IntVal(1), StrVal(<<"1">>)}}
    \cup {Request("nope", <<>>), Request("nope", [path |-> Rel(<<n_f>>)]),
          Request("nope", [workspace |-> Abs(<<n_o>>)])}
    \cup {Request("read_file", <<>>),
          Request("read_file", [path |-> Rel(<<n_f>>), mode |-> StrVal(<<"r">>)]),
          Request("read_file", [path |-> Rel(<<n_f>>), workspace |-> Abs(<<n_o>>)]),
          Request("think", [workspace |-> Abs(<<n_o>>), thought |-> StrVal(Text_aa)])}

InitTools ==
    /\ fs = InitialFs
    /\ messages = <<SystemMessage>>
    /\ pc = "Idle"
    /\ iteration = 0
    /\ response = NoResponse
    /\ tc_index = 0
    /\ returned = NoReturn
    /\ menu = {}
    /\ child = NoChild
    /\ llm = NoChat
    /\ last = NoCall

\* execute_tool(name, arguments, workspace)
ExecuteTool(name, arguments) ==
    \E env \in EnvsFor(fs, name, arguments, Workspace) :
       /\ last' = Call(name, arguments, env, fs,
                       execute_tool(fs, env, name, arguments, Workspace))
       /\ fs' = last'.outcome.fs
       /\ UNCHANGED <<messages, pc, iteration, response, tc_index, returned, menu, child, llm>>

NextTools == \E call \in DirectCalls : ExecuteTool(call.name, call.arguments)

ToolSpec == InitTools /\ [][NextTools]_vars

\* ------------------------------------------------------------------ commands in time
\* the largest timeout, in seconds, that a caller passes
MaxTimeout == 3

\* run_command called with and without a timeout
CommandCalls ==
    {[command |-> c] : c \in Commands}
    \cup {[command |-> StrVal(<<"e", "c", "h", "o">>), timeout |-> t] :
             t \in {IntVal(n) : n \in 1..MaxTimeout} \cup {StrVal(<<"1">>)}}

\* `timeout: int = 60`
TimeoutOf(arguments) == Arg(arguments, "timeout", IntVal(DefaultTimeout))

\* the call that execute_tool answers: run_command works on the file system
\* of the moment of the call, which nothing changes while it waits
CommandCall(arguments, proc) ==
    Call("run_command", arguments, Env(FALSE, proc, <<>>), fs,
         execute_tool(fs, Env(FALSE, proc, <<>>), "run_command", arguments, Workspace))

\* the subprocess of a run_command, `elapsed` seconds after its start, and
\* the call that is answered when the wait is over
Waiting(arguments, proc, elapsed, call) ==
    [state |-> "running", arguments |-> arguments, proc |-> proc, elapsed |-> elapsed,
     call |-> call]

\* whether run_command gets as far as waiting for a subprocess: the command
\* is a text without a denylisted pattern, the subprocess starts, and the
\* timeout is a number
StartsWaiting(arguments, proc) ==
    /\ arguments["command"].t = "str"
    /\ ~\E b \in BlockedPatterns : Contains(Lower(arguments["command"].v), b)
    /\ ~proc.oserror
    /\ TimeoutOf(arguments).t = "int"

\* execute_tool returns the result of the run_command
ReturnCommand(call) ==
    /\ last' = call
    /\ fs' = call.outcome.fs
    /\ child' = NoChild
    /\ UNCHANGED <<messages, pc, iteration, response, tc_index, returned, menu, llm>>

\* execute_tool("run_command", arguments, workspace) is called: it returns at
\* once, or starts the subprocess and waits
RunCommand(arguments, proc) ==
    /\ child = NoChild
    /\ IF StartsWaiting(arguments, proc)
       THEN /\ child' = Waiting(arguments, proc, 0, CommandCall(arguments, proc))
            /\ UNCHANGED <<fs, messages, pc, iteration, response, tc_index, returned, menu,
                           llm, last>>
       ELSE ReturnCommand(CommandCall(arguments, proc))

\* a second passes while the subprocess runs and the timeout has not expired
Tick ==
    /\ child.state = "running"
    /\ child.elapsed < TimeoutOf(child.arguments).v
    /\ child.proc.never \/ child.elapsed < child.proc.duration
    /\ child' = [child EXCEPT !.elapsed = @ + 1]
    /\ UNCHANGED <<fs, messages, pc, iteration, response, tc_index, returned, menu, llm,
                   last>>

\* the subprocess ends and subprocess.run returns
CommandEnds ==
    /\ child.state = "running"
    /\ ~child.proc.never
    /\ child.elapsed = child.proc.duration
    /\ ReturnCommand(child.call)

\* a wait without a timeout: the expiry goes unnoticed
TimeoutIgnored ==
    /\ child.state = "running"
    /\ child.elapsed = TimeoutOf(child.arguments).v
    /\ UNCHANGED vars

\* the timeout expires while the subprocess runs: subprocess.run kills it and
\* raises TimeoutExpired, run_command returns the timeout error
TimeoutExpires ==
    /\ child.state = "running"
    /\ child.elapsed = TimeoutOf(child.arguments).v
    /\ child.proc.never \/ child.elapsed < child.proc.duration
    /\ ReturnCommand(child.call)

NextCommand ==
    \/ \E arguments \in CommandCalls, proc \in ProcOutcomes : RunCommand(arguments, proc)
    \/ Tick
    \/ CommandEnds
    \/ TimeoutExpires

\* time passes, and subprocess.run notices the end of the subprocess and the
\* expiry of the timeout
CommandSpec ==
    /\ InitTools
    /\ [][NextCommand]_vars
    /\ WF_vars(Tick)
    /\ WF_vars(CommandEnds)
    /\ WF_vars(TimeoutExpires)

\* ------------------------------------------------------------------ searches
\* a text of k lines that each hold the letter a
Lines(k) == [i \in 1..(2 * k) |-> IF i % 2 = 1 THEN "a" ELSE "\n"]

\* a workspace whose file f has kf lines `a`, whose file g has the line
\* ` Ab ` and kg - 1 lines `a`, and whose hidden directory .h has a file f
\* with one line `a`
SearchFs(kf, kg) ==
    [p \in {<<>>, <<n_w>>, <<n_w, n_f>>, <<n_w, n_g>>, <<n_w, n_h>>, <<n_w, n_h, n_f>>}
       |-> CASE p = <<n_w, n_f>> -> FileNode(Lines(kf))
             [] p = <<n_w, n_g>> -> FileNode(<<" ", "A", "b", " ", "\n">> \o Lines(kg - 1))
             [] p = <<n_w, n_h, n_f>> -> FileNode(Lines(1))
             [] OTHER -> DirNode]

\* workspaces with 2, 49, 50 and 51 lines that hold an a, the last both in
\* one file and spread over two
SearchWorkspaces ==
    {SearchFs(size[1], size[2]) :
        size \in {<<1, 1>>, <<MaxMatches - 2, 1>>, <<MaxMatches - 1, 1>>, <<MaxMatches, 1>>,
                  <<MaxMatches - 3, 4>>}}

SearchCalls ==
    {Request("search_files", [pattern |-> StrVal(<<c>>)]) : c \in {"a", "A", "b", "z"}}
    \cup {Request("search_files", [pattern |-> StrVal(<<c>>), file_glob |-> StrVal(n_f)]) :
             c \in {"a", "A", "b", "z"}}

InitSearch ==
    /\ fs \in SearchWorkspaces
    /\ messages = <<SystemMessage>>
    /\ pc = "Idle"
    /\ iteration = 0
    /\ response = NoResponse
    /\ tc_index = 0
    /\ returned = NoReturn
    /\ menu = {}
    /\ child = NoChild
    /\ llm = NoChat
    /\ last = NoCall

\* one search of the workspace: a search leaves the filesystem as it is, so
\* a second one would meet what the first one met
Search(arguments) ==
    /\ ~last.called
    /\ ExecuteTool("search_files", arguments)

NextSearch == \E call \in SearchCalls : Search(call.arguments)

SearchSpec == InitSearch /\ [][NextSearch]_vars

\* ------------------------------------------------------------------ workspace boundary claims
\* the last call was a file tool called with a path whose resolved target is
\* neither the workspace root nor below it
LastCallEscapes ==
    /\ last.called
    /\ last.name \in FileTools
    /\ Binds(last.name, last.arguments)
    /\ last.arguments["path"].t = "str"
    /\ ~IsInside(Resolve(last.before, Workspace),
                 Target(last.before, Workspace, last.arguments["path"]))

\* C1: a file tool called with a path that resolves outside the workspace (a
\* sibling directory whose name begins with the workspace's name included)
\* returns the access-denied result and leaves the filesystem as it was,
\* whatever calls came before.
C1_EscapingPathDenied ==
    LastCallEscapes =>
        /\ last.outcome.value = AccessDenied
        /\ last.outcome.fs = last.before

\* C5: execute_tool always returns a string; when binding the arguments or
\* running a registered tool raises, the string is the
\* "Error executing <name>: <type>: <message>" text of that exception.
C5_ExecutorAbsorbsFaults ==
    last.called =>
        /\ ~last.outcome.raised
        /\ "text" \in DOMAIN last.outcome.value
        /\ last.name \in TOOL_REGISTRY =>
              LET raw == CallTool(last.before, last.env, last.name, last.arguments,
                                  Workspace)
              IN  raw.raised => last.outcome.value = ErrorExecuting(last.name, raw.value)

\* a registered tool met an operating-system fault and the executor returned
\* its text
C5_Witness ==
    /\ last.called
    /\ last.name = "write_file"
    /\ last.env.io_fault
    /\ last.outcome.value = ErrorExecuting("write_file", "PermissionError")

\* ------------------------------------------------------------------ conversation claims
IsPrefix(s, t) == Len(s) <= Len(t) /\ SubSeq(t, 1, Len(s)) = s

\* the positions of the turns of a role
TurnsOf(role) == {k \in 1..Len(messages) : messages[k].role = role}

\* the position of the user turn of the latest run
LastUser == Max(TurnsOf("user"))

\* the assistant turns appended since the latest run started
RunAssistantTurns == {k \in TurnsOf("assistant") : k > LastUser}

\* the position of the first user or assistant turn after turn k, or 0
NextSpeaker(k) ==
    LET later == {j \in TurnsOf("user") \cup TurnsOf("assistant") : j > k} IN
    IF later = {} THEN 0 ELSE CHOOSE j \in later : \A i \in later : j <= i

\* the tool-role turns that follow turn k before anyone else speaks
RepliesTo(k) ==
    {j \in TurnsOf("tool") : j > k /\ (NextSpeaker(k) = 0 \/ j < NextSpeaker(k))}

\* the loop over the tool calls of turn k has not yet passed its i-th call
Pending(k, i) ==
    /\ pc = "ExecutingTools"
    /\ k = Max(TurnsOf("assistant"))
    /\ tc_index <= i

\* what executing a tool with the empty argument set returns: every tool of
\* the registry has a required argument
ResultOfEmptyArguments(name) ==
    execute_tool(InitialFs, Env(FALSE, NoProc, <<>>), name, <<>>, Workspace).value

\* C2: a run enters Thinking between 1 and MaxIterations times, counted from 1
\* in every run; when no model call raises it ends either in Done, at the
\* first assistant turn without tool calls, returning that turn's text, or at
\* the ceiling, after MaxIterations assistant turns that all carry tool
\* calls, returning the ceiling message.
C2_RunEndsDoneOrCeiling ==
    /\ pc \in {"Thinking", "ExecutingTools", "Done", "Ceiling"} =>
          /\ iteration \in 1..MaxIterations
          /\ Cardinality(RunAssistantTurns) \in (iteration - 1)..iteration
    /\ pc = "Done" =>
          /\ messages[Len(messages)].role = "assistant"
          /\ messages[Len(messages)].tool_calls = <<>>
          /\ returned = Return(messages[Len(messages)].content)
          /\ \A k \in RunAssistantTurns \ {Len(messages)} : messages[k].tool_calls # <<>>
    /\ pc = "Ceiling" =>
          /\ returned = Return(CeilingMessage)
          /\ Cardinality(RunAssistantTurns) = MaxIterations
          /\ \A k \in RunAssistantTurns : messages[k].tool_calls # <<>>
    /\ pc = "Raised" => returned = Raise("TransportFault")

\* C3: every tool-role turn answers a tool call of an earlier assistant turn,
\* and once a user or assistant turn follows an assistant turn with tool
\* calls, each of its call ids has exactly one tool-role turn in between.
C3_ToolTurnsMatchRequests ==
    /\ \A j \in TurnsOf("tool") :
          \E k \in TurnsOf("assistant") :
             /\ k < j
             /\ \E i \in 1..Len(messages[k].tool_calls) :
                   messages[k].tool_calls[i].id = messages[j].tool_call_id
    /\ \A k \in TurnsOf("assistant") :
          NextSpeaker(k) # 0 =>
             \A i \in 1..Len(messages[k].tool_calls) :
                Cardinality({j \in RepliesTo(k) :
                                messages[j].tool_call_id = messages[k].tool_calls[i].id}) = 1

\* C4: a tool call whose argument payload is no JSON, or JSON that is no
\* object, is executed with the empty argument set once the loop reaches it:
\* its tool-role turn, with its id and the result, is appended and the run
\* goes on to the calls after it.
C4_MalformedArgumentsExecuted ==
    \A k \in TurnsOf("assistant") :
       \A i \in 1..Len(messages[k].tool_calls) :
          LET tc == messages[k].tool_calls[i] IN
          (tc.function.arguments.json # "object" /\ ~Pending(k, i)) =>
             /\ Len(messages) >= k + i
             /\ messages[k + i].role = "tool"
             /\ messages[k + i].tool_call_id = tc.id
             /\ messages[k + i].content = ResultOfEmptyArguments(tc.function.name)

\* the result texts that report a failure of the tool
FailureTexts ==
    { AccessDenied.text, FileNotFound(<<>>).text, DirNotFound(<<>>).text,
      NotADirectory(<<>>).text, OldNotFound.text, OldAmbiguous(0).text, Blocked.text,
      TimedOut(0).text, UnknownTool("").text, ErrorExecuting("", "").text }

\* C6: a failure of a tool is the text of its tool-role turn and never ends
\* the run: the calls after it in the batch are executed as soon as the loop
\* reaches them, and the only exception that leaves run is the one of the
\* model call.
C6_ToolFailuresStayInBand ==
    /\ pc = "Raised" => returned = Raise("TransportFault")
    /\ \A k \in TurnsOf("assistant") :
          \A i \in 1..Len(messages[k].tool_calls) :
             ( /\ k + i <= Len(messages)
               /\ messages[k + i].role = "tool"
               /\ messages[k + i].content.text \in FailureTexts ) =>
                \A n \in (i + 1)..Len(messages[k].tool_calls) :
                   ~Pending(k, n) =>
                      /\ Len(messages) >= k + n
                      /\ messages[k + n].role = "tool"
                      /\ messages[k + n].tool_call_id = messages[k].tool_calls[n].id
    /\ (pc \in {"Thinking", "ExecutingTools", "Ceiling"}
        /\ messages[Len(messages)].role = "tool") =>
          /\ last.called
          /\ messages[Len(messages)].content = last.outcome.value

\* C7: when the model call raises, run raises and the conversation is what it
\* was before the call: nothing is appended, nothing is removed.
C7_FailedCallLeavesConversation ==
    [][(pc = "Thinking" /\ pc' = "Raised") =>
          /\ messages' = messages
          /\ returned' = Raise("TransportFault")]_vars

\* the model call of the second Thinking entry of a run failed, after tool
\* results had been appended
C7_Witness ==
    /\ pc = "Raised"
    /\ returned = Raise("TransportFault")
    /\ iteration = 2
    /\ messages[Len(messages)].role = "tool"

\* the conversation starts with the system turn and has no other
SystemTurnFirst ==
    /\ Len(messages) >= 1
    /\ messages[1] = SystemMessage
    /\ TurnsOf("system") = {1}

\* C8: the conversation always starts with its only system turn; every step
\* of run leaves the earlier conversation as a prefix of the later one, and
\* only reset removes turns.
C8_ConversationAppendOnly ==
    /\ []SystemTurnFirst
    /\ [][pc' # "Idle" => IsPrefix(messages, messages')]_vars

\* a second run has been appended after the turns of a first one
C8_Witness ==
    /\ Cardinality(TurnsOf("user")) = 2
    /\ TurnsOf("tool") # {}
    /\ pc = "Done"

\* C9: reset leaves exactly the original system turn and the idle agent, the
\* state a fresh agent starts its first run from.
C9_ResetRestoresFreshAgent ==
    pc = "Idle" =>
        /\ messages = <<SystemMessage>>
        /\ iteration = 0
        /\ response = NoResponse
        /\ tc_index = 0
        /\ returned = NoReturn

\* the agent was reset after a run that had executed tools
C9_Witness ==
    /\ pc = "Idle"
    /\ last.called
    /\ messages = <<SystemMessage>>

\* C10: the tool-role turns after an assistant turn answer its calls in
\* request order, one at a time, each with the id, the name and the result of
\* its call; the loop is always at the first call without a result, and a
\* model call is issued only when every call of every assistant turn has its
\* result.
C10_ToolsRunInRequestOrder ==
    /\ \A k \in TurnsOf("assistant") :
          LET answered == Cardinality(RepliesTo(k)) IN
          /\ RepliesTo(k) = (k + 1)..(k + answered)
          /\ answered <= Len(messages[k].tool_calls)
          /\ \A i \in 1..answered :
                /\ messages[k + i].tool_call_id = messages[k].tool_calls[i].id
                /\ messages[k + i].name = messages[k].tool_calls[i].function.name
    /\ (pc \in {"Thinking", "ExecutingTools", "Ceiling"}
        /\ messages[Len(messages)].role = "tool") =>
          /\ last.called
          /\ messages[Len(messages)].name = last.name
          /\ messages[Len(messages)].content = last.outcome.value
    /\ pc = "ExecutingTools" =>
          /\ response = messages[Max(TurnsOf("assistant"))]
          /\ tc_index = Cardinality(RepliesTo(Max(TurnsOf("assistant")))) + 1
    /\ pc = "Thinking" =>
          \A k \in TurnsOf("assistant") :
             Cardinality(RepliesTo(k)) = Len(messages[k].tool_calls)

\* ------------------------------------------------------------------ file tool claims
\* the last call was the tool `name`, called with arguments that bind
LastIs(name) == last.called /\ last.name = name /\ Binds(name, last.arguments)

\* the last call was the file tool `name` with a path inside the workspace,
\* on a filesystem whose reads and writes succeed
LastInside(name) ==
    /\ LastIs(name)
    /\ last.arguments["path"].t = "str"
    /\ ~last.env.io_fault
    /\ IsInside(Resolve(last.before, Workspace),
                Target(last.before, Workspace, last.arguments["path"]))

\* the resolved target of the last call's path
LastTarget == Target(last.before, Workspace, last.arguments["path"])

\* the two filesystems agree on every path outside `paths`
SameExcept(before, after, paths) ==
    /\ DOMAIN before \ paths = DOMAIN after \ paths
    /\ \A q \in DOMAIN before \ paths : after[q] = before[q]

\* C11: when edit_file is called on an existing file of the workspace with
\* strings old_string and new_string: if old_string occurs exactly once in the
\* file, the file becomes its former content with that occurrence replaced and
\* nothing else changed; if it occurs zero times, or N > 1 times, the file is
\* as before and the result reports not-found, or the count N; no other file
\* changes in any of the three cases.
C11_EditReplacesUniqueOccurrence ==
    ( /\ LastInside("edit_file")
      /\ IsFile(last.before, LastTarget)
      /\ last.arguments["old_string"].t = "str"
      /\ last.arguments["new_string"].t = "str" ) =>
        LET old == last.arguments["old_string"].v
            new == last.arguments["new_string"].v
            was == last.before[LastTarget].content
            n == Count(was, old)
        IN  /\ SameExcept(last.before, last.outcome.fs, {LastTarget})
            /\ IsFile(last.outcome.fs, LastTarget)
            /\ n = 1 => /\ last.outcome.fs[LastTarget].content = ReplaceFirst(was, old, new)
                        /\ last.outcome.value = Edited(last.arguments["path"].v)
            /\ n = 0 => /\ last.outcome.fs = last.before
                        /\ last.outcome.value = OldNotFound
            /\ n > 1 => /\ last.outcome.fs = last.before
                        /\ last.outcome.value = OldAmbiguous(n)

\* the last call wrote a text to a path inside the workspace and succeeded
LastWrote ==
    /\ LastInside("write_file")
    /\ last.arguments["content"].t = "str"
    /\ last.outcome.value = Wrote(Len(last.arguments["content"].v), last.arguments["path"].v)

\* after a successful write the parents of the target exist and nothing but
\* the target and its new parents is different
WriteFrame ==
    LastWrote =>
        /\ IsFile(last.outcome.fs, LastTarget)
        /\ \A a \in Ancestors(LastTarget) : IsDir(last.outcome.fs, a)
        /\ \A q \in DOMAIN last.before \ {LastTarget} :
              q \in DOMAIN last.outcome.fs /\ last.outcome.fs[q] = last.before[q]
        /\ DOMAIN last.outcome.fs \subseteq
              DOMAIN last.before \cup {LastTarget} \cup Ancestors(LastTarget)

\* a read of the path that the call before it wrote returns the text written
ReadReturnsWritten ==
    ( /\ LastWrote
      /\ last'.called
      /\ last'.name = "read_file"
      /\ last'.arguments = [path |-> last.arguments["path"]]
      /\ ~last'.env.io_fault ) =>
        last'.outcome.value = FileText(last.arguments["content"].v)

\* C12: write_file(p, c) on a path inside the workspace, followed by
\* read_file(p), returns exactly c, whatever p held before; the parent
\* directories of p that were missing exist after the write, and no other file
\* is changed by it.
C12_WriteThenReadRoundTrip ==
    /\ []WriteFrame
    /\ [][ReadReturnsWritten]_vars

\* the paths that exist on one side only, or hold something else after
Changed(before, after) ==
    {q \in DOMAIN before \cup DOMAIN after :
        \/ q \notin DOMAIN before
        \/ q \notin DOMAIN after
        \/ before[q] # after[q]}

\* C13: whatever tool of the catalog is called, with whatever arguments and
\* whatever the workspace holds (symlinks included), every filesystem object
\* the call reads or changes lies at or below the workspace root.
C13_NoAccessOutsideWorkspace ==
    (last.called /\ last.name \in TOOL_REGISTRY) =>
        \A q \in last.outcome.read \cup Changed(last.before, last.outcome.fs) :
           IsInside(Resolve(last.before, Workspace), q)

\* ------------------------------------------------------------------ executor claims
\* C14: a call of execute_tool with a name that is not in the registry
\* returns the unknown-tool result for that name, whatever the arguments are;
\* it starts no subprocess, reads nothing and leaves the filesystem as it was.
C14_UnknownToolRefused ==
    (last.called /\ last.name \notin TOOL_REGISTRY) =>
        /\ ~last.outcome.raised
        /\ last.outcome.value = UnknownTool(last.name)
        /\ last.outcome.spawned = <<>>
        /\ last.outcome.read = {}
        /\ last.outcome.fs = last.before

\* an unregistered name was called with a path argument after earlier calls
\* had changed the workspace
C14_Witness ==
    /\ last.called
    /\ last.name \notin TOOL_REGISTRY
    /\ "path" \in DOMAIN last.arguments
    /\ last.before # InitialFs
    /\ last.outcome.value = UnknownTool("nope")

\* ------------------------------------------------------------------ shell claims
\* the last call was run_command with a command text
LastCommand == LastIs("run_command") /\ last.arguments["command"].t = "str"

\* the command holds a pattern of the denylist, in whatever letter case
OnDenylist(command) == \E b \in BlockedPatterns : Contains(Lower(command), b)

\* C15: run_command with a command that holds a pattern of the denylist
\* returns the blocked result, starts no subprocess and leaves the filesystem
\* as it was; whenever a subprocess is started the command holds no such
\* pattern, and the subprocess runs that command in the workspace directory.
C15_DenylistedCommandNeverRuns ==
    LastCommand =>
        LET command == last.arguments["command"].v IN
        /\ OnDenylist(command) =>
              /\ last.outcome.value = Blocked
              /\ last.outcome.spawned = <<>>
              /\ last.outcome.read = {}
              /\ last.outcome.fs = last.before
        /\ \A i \in 1..Len(last.outcome.spawned) :
              /\ ~OnDenylist(command)
              /\ last.outcome.spawned[i].command = command
              /\ last.outcome.spawned[i].cwd = Resolve(last.before, Workspace)

\* a command that holds the pattern `rm -rf /` as it is written in the
\* denylist was blocked
C15_Witness ==
    /\ LastCommand
    /\ \E b \in BlockedPatterns : Contains(last.arguments["command"].v, b)
    /\ last.outcome.value = Blocked
    /\ last.before # InitialFs

\* what a returned run_command says about its subprocess: the timeout error
\* with the subprocess killed when it was still running as the timeout
\* expired, and never the timeout error when it ended within the timeout
TimeoutResult ==
    ( /\ LastCommand
      /\ StartsWaiting(last.arguments, last.env.proc) ) =>
        LET t == TimeoutOf(last.arguments).v IN
        /\ ~last.outcome.raised
        /\ Len(last.outcome.spawned) = 1
        /\ IF last.env.proc.never \/ last.env.proc.duration > t
           THEN /\ last.outcome.value = TimedOut(t)
                /\ last.outcome.spawned[1].killed
           ELSE /\ last.outcome.value.text # TimedOut(t).text
                /\ ~last.outcome.spawned[1].killed

\* run_command returns no later than its timeout expires
ReturnsInTime ==
    child.state = "running" => child.elapsed <= TimeoutOf(child.arguments).v

\* C16: run_command with an integer timeout t always returns, whatever the
\* command does: a wait for the subprocess ends with the return of
\* run_command, no later than t after its start; when the subprocess is still
\* running as t expires (it may never end), it is killed and the result is
\* the timeout error that names t; when it ends within t, the result is never
\* the timeout error.
C16_CommandBoundedByTimeout ==
    /\ []TimeoutResult
    /\ []ReturnsInTime
    /\ (child.state = "running") ~> (child.state = "none")

\* a subprocess that never ends was killed when the default timeout expired
C16_Witness ==
    /\ child = NoChild
    /\ LastCommand
    /\ last.env.proc.never
    /\ "timeout" \notin DOMAIN last.arguments
    /\ last.outcome.value = TimedOut(DefaultTimeout)
    /\ last.outcome.spawned[1].killed

\* ------------------------------------------------------------------ more file tool claims
\* C17: delete_file on a path inside the workspace removes the file at that
\* path and nothing else, so that the path no longer exists; for a missing
\* path it returns not-found and for a directory the rejection, and the
\* filesystem is as before.
C17_DeleteRemovesOnlyTheFile ==
    LastInside("delete_file") =>
        IF ~Exists(last.before, LastTarget)
        THEN /\ last.outcome.value = FileNotFound(last.arguments["path"].v)
             /\ last.outcome.fs = last.before
        ELSE IF IsDir(last.before, LastTarget)
        THEN /\ last.outcome.value = UseRunCommand
             /\ last.outcome.fs = last.before
        ELSE /\ last.outcome.value = Deleted(last.arguments["path"].v)
             /\ ~Exists(last.outcome.fs, LastTarget)
             /\ SameExcept(last.before, last.outcome.fs, {LastTarget})

\* a file in a directory that an earlier write had created was deleted
C17_Witness ==
    /\ LastInside("delete_file")
    /\ LastTarget = <<n_w, n_d, n_f>>
    /\ last.outcome.value = Deleted(last.arguments["path"].v)
    /\ IsDir(last.outcome.fs, <<n_w, n_d>>)

\* C18: think, called through the executor with whatever arguments, returns
\* the fixed acknowledgement and leaves the filesystem as it was.
C18_ThinkNeverFails ==
    (last.called /\ last.name = "think") =>
        /\ ~last.outcome.raised
        /\ last.outcome.value = ThoughtRecorded
        /\ last.outcome.spawned = <<>>
        /\ last.outcome.fs = last.before

\* an entry of a listing without the `/` that marks a directory
BaseName(entry) ==
    IF entry # <<>> /\ entry[Len(entry)] = "/" THEN SubSeq(entry, 1, Len(entry) - 1)
    ELSE entry

\* C20: list_directory on a directory inside the workspace returns the names
\* of its entries, each once, in ascending order, with `/` after exactly the
\* names of directories; the empty-directory sentinel when there is no entry;
\* an error for a missing target and for a target that is no directory; and
\* the filesystem is as before in every case.
C20_ListingSortedAndMarked ==
    LastInside("list_directory") =>
        /\ last.outcome.fs = last.before
        /\ IF ~Exists(last.before, LastTarget)
           THEN last.outcome.value = DirNotFound(last.arguments["path"].v)
           ELSE IF ~IsDir(last.before, LastTarget)
           THEN last.outcome.value = NotADirectory(last.arguments["path"].v)
           ELSE LET names == {item[Len(item)] : item \in Children(last.before, LastTarget)}
                IN  IF names = {} THEN last.outcome.value = EmptyDirectory
                    ELSE /\ last.outcome.value.text = Listing(<<>>).text
                         /\ LET entries == last.outcome.value.entries IN
                            /\ {BaseName(entries[i]) : i \in 1..Len(entries)} = names
                            /\ \A i, j \in 1..Len(entries) :
                                  i < j => TextLess(BaseName(entries[i]), BaseName(entries[j]))
                            /\ \A i \in 1..Len(entries) :
                                  (entries[i] # BaseName(entries[i])) <=>
                                     IsDirFollow(last.before,
                                                 Append(LastTarget, BaseName(entries[i])))

\* the workspace was listed when it held the directory d besides its file
\* and its symlinks
C20_Witness ==
    /\ LastInside("list_directory")
    /\ LastTarget = <<n_w>>
    /\ last.outcome.value = Listing(<<n_d \o <<"/">>, n_f, n_l \o <<"/">>, n_m>>)

\* a directory that a delete had emptied was listed
C20_WitnessEmpty ==
    /\ LastInside("list_directory")
    /\ LastTarget = <<n_w, n_d>>
    /\ last.outcome.value = EmptyDirectory

\* ------------------------------------------------------------------ search claims
\* the lines a search can report: <<rel, i>> for line i of a file that the
\* glob accepts, that lies under no hidden path segment and can be read,
\* when the line holds the pattern in whatever letter case
Candidates(before, env, pattern, glob) ==
    LET root == Resolve(before, Workspace) IN
    IF env.io_fault THEN {}
    ELSE UNION {
           LET lines == SplitLines(ReadThrough(before, p)) IN
           {<<SubSeq(p, Len(root) + 1, Len(p)), i>> :
              i \in {k \in 1..Len(lines) : Contains(Lower(lines[k]), Lower(pattern))}}
           : p \in {q \in GlobMatches(before, root, glob) :
                      /\ IsFileFollow(before, q)
                      /\ ~IsHidden(SubSeq(q, Len(root) + 1, Len(q)))} }

\* C19: the result of search_files holds at most 50 match lines, each the
\* path, the line number and the stripped text of a different line that holds
\* the pattern, in a file under no hidden path segment; it holds as many as
\* there are such lines, up to 50; the truncation notice follows the match
\* lines exactly when there are 50 of them; and the result is the no-matches
\* sentinel exactly when no line holds the pattern.
C19_SearchReportsUpToFiftyLines ==
    ( /\ LastIs("search_files")
      /\ last.arguments["pattern"].t = "str"
      /\ Arg(last.arguments, "file_glob", StrVal(AllFilesGlob)).t = "str" ) =>
        LET found == Candidates(last.before, last.env, last.arguments["pattern"].v,
                                Arg(last.arguments, "file_glob", StrVal(AllFilesGlob)).v)
            value == last.outcome.value
            root == Resolve(last.before, Workspace)
        IN  /\ last.outcome.fs = last.before
            /\ (value = NoMatches) <=> (found = {})
            /\ found # {} =>
                 /\ value.text = Matches(<<>>).text
                 /\ LET results == value.results
                        lines == {i \in 1..Len(results) : results[i] # TruncatedNotice}
                        n == Cardinality(lines)
                    IN  /\ lines = 1..n
                        /\ n = IF Cardinality(found) < MaxMatches THEN Cardinality(found)
                               ELSE MaxMatches
                        /\ Len(results) = IF n = MaxMatches THEN n + 1 ELSE n
                        /\ \A i \in lines :
                              /\ <<results[i].rel, results[i].lineno>> \in found
                              /\ ~IsHidden(results[i].rel)
                              /\ results[i].line =
                                    Strip(SplitLines(ReadThrough(last.before,
                                              root \o results[i].rel))[results[i].lineno])
                        /\ \A i, j \in lines :
                              i # j => <<results[i].rel, results[i].lineno>> #
                                         <<results[j].rel, results[j].lineno>>

\* a search met 51 lines with the pattern, spread over two files: it
\* reported 50 of them and the notice
C19_Witness ==
    /\ LastIs("search_files")
    /\ last.outcome.value.text = Matches(<<>>).text
    /\ Len(last.outcome.value.results) = MaxMatches + 1
    /\ last.outcome.value.results[MaxMatches + 1] = TruncatedNotice
    /\ \E i, j \in 1..MaxMatches :
          last.outcome.value.results[i].rel # last.outcome.value.results[j].rel

\* a search met exactly 49 lines with the pattern and reported them all
\* without the notice
C19_WitnessBelowLimit ==
    /\ LastIs("search_files")
    /\ last.outcome.value.text = Matches(<<>>).text
    /\ Len(last.outcome.value.results) = MaxMatches - 1
    /\ \A i \in 1..(MaxMatches - 1) : last.outcome.value.results[i] # TruncatedNotice

\* ------------------------------------------------------------------ the ceiling
\* the position of the latest assistant turn
LastAssistant == Max(TurnsOf("assistant"))

\* the conversation of a run that ended at the ceiling: it ends with the
\* tool-role turns of the latest assistant turn, one for each of its tool
\* calls, in their order, and no turn holds the ceiling message
CeilingConversation ==
    pc = "Ceiling" =>
       /\ returned = Return(CeilingMessage)
       /\ Cardinality(RunAssistantTurns) = MaxIterations
       /\ LastAssistant > LastUser
       /\ LET calls == messages[LastAssistant].tool_calls IN
          /\ calls # <<>>
          /\ Len(messages) = LastAssistant + Len(calls)
          /\ \A i \in 1..Len(calls) :
                /\ messages[LastAssistant + i].role = "tool"
                /\ messages[LastAssistant + i].tool_call_id = calls[i].id
                /\ messages[LastAssistant + i].name = calls[i].function.name
       /\ \A k \in 1..Len(messages) :
             IF messages[k].role = "tool"
             THEN messages[k].content.text # CeilingMessage
             ELSE messages[k].content # CeilingMessage

\* the step that ends a run at the ceiling executes the last tool call of the
\* latest assistant turn: its effect on the filesystem is applied and its
\* tool-role turn, with the result, is the one turn appended
CeilingAfterLastCall ==
    (pc # "Ceiling" /\ pc' = "Ceiling") =>
       /\ pc = "ExecutingTools"
       /\ tc_index = Len(response.tool_calls)
       /\ response = messages[LastAssistant]
       /\ last'.called
       /\ last'.before = fs
       /\ last'.name = response.tool_calls[tc_index].function.name
       /\ last'.arguments = ParseArguments(response.tool_calls[tc_index].function.arguments).value
       /\ last'.outcome = execute_tool(fs, last'.env, last'.name, last'.arguments, Workspace)
       /\ fs' = last'.outcome.fs
       /\ messages' = Append(messages,
                             ToolMessage(last'.outcome.value,
                                         response.tool_calls[tc_index].id, last'.name))

\* the run that follows a run that ended at the ceiling appends its user turn
\* directly after the tool-role turns
RunAfterCeiling ==
    (pc = "Ceiling" /\ pc' = "Thinking") =>
       /\ messages[Len(messages)].role = "tool"
       /\ \E user_input \in UserTexts : messages' = Append(messages, UserMessage(user_input))

\* C21: when a run ends at the ceiling, every tool call of the latest
\* assistant turn (the MaxIterations-th of the run) has been executed and has
\* its tool-role turn, the last of them appended by the step that ends the
\* run; the ceiling message is returned and is in no turn of the
\* conversation, which ends with tool-role turns; the next run appends its
\* user turn directly after them.
C21_CeilingLeavesToolTurnsLast ==
    /\ []CeilingConversation
    /\ [][CeilingAfterLastCall]_vars
    /\ [][RunAfterCeiling]_vars

\* a run ended at the ceiling after a batch of two tool calls that changed
\* the filesystem
C21_Witness ==
    /\ pc = "Ceiling"
    /\ Len(messages[LastAssistant].tool_calls) = 2
    /\ messages[Len(messages)].role = "tool"
    /\ fs # InitialFs

\* a run started after a run that ended at the ceiling
C21_WitnessNextRun ==
    /\ pc = "Thinking"
    /\ Len(messages) > 2
    /\ messages[Len(messages)].role = "user"
    /\ messages[Len(messages) - 1].role = "tool"
    /\ Cardinality({k \in TurnsOf("assistant") : k > Max(TurnsOf("user") \ {LastUser})})
          = MaxIterations

\* ------------------------------------------------------------------ the workspace argument
\* the last call carried a key the called function does not take besides
\* `workspace`, or the key `workspace` itself
LastCarriesForeignKey ==
    /\ last.called
    /\ \/ "workspace" \in DOMAIN last.arguments
       \/ /\ last.name \in TOOL_REGISTRY
          /\ ~(DOMAIN last.arguments
                  \subseteq Signature[last.name].required \cup Signature[last.name].optional)
       \/ /\ last.name \notin TOOL_REGISTRY
          /\ DOMAIN last.arguments # {}

\* the last call ran nothing: no file was changed or read, no subprocess started
LastRanNothing ==
    /\ last.outcome.fs = last.before
    /\ fs = last.before
    /\ last.outcome.spawned = <<>>
    /\ last.outcome.read = {}

\* C22 as stated: every call whose arguments hold the key `workspace`, or a
\* key the tool does not declare, returns the `Error executing ...` text
\* without running anything.
C22_ForeignKeyIsAnExecutionError ==
    LastCarriesForeignKey =>
       /\ ~last.outcome.raised
       /\ last.outcome.value = ErrorExecuting(last.name, "TypeError")
       /\ LastRanNothing

\* C22, amended: a call whose arguments hold the key `workspace`, or a key
\* the tool does not declare, never runs the capability and leaves the
\* filesystem unchanged, so a capability only ever runs with the workspace
\* root execute_tool was given; the result is the `Error executing ...` text
\* of the TypeError when the name is registered, and the unknown-tool error
\* when it is not.
C22_WorkspaceNotChosenByCaller ==
    LastCarriesForeignKey =>
       /\ ~last.outcome.raised
       /\ last.outcome.value = IF last.name \in TOOL_REGISTRY
                               THEN ErrorExecuting(last.name, "TypeError")
                               ELSE UnknownTool(last.name)
       /\ LastRanNothing

\* read_file was asked for a file that exists under the root the caller
\* named, after the filesystem had changed, and was refused
C22_Witness ==
    /\ last.called
    /\ last.name = "read_file"
    /\ "workspace" \in DOMAIN last.arguments
    /\ "path" \in DOMAIN last.arguments
    /\ IsFile(last.before, Target(last.before, last.arguments["workspace"].v.parts,
                                  last.arguments["path"]))
    /\ last.before # InitialFs
    /\ last.outcome.value = ErrorExecuting("read_file", "TypeError")

\* ------------------------------------------------------------------ the size write_file reports
\* the last call was a write_file that reported success
LastWriteSucceeded ==
    /\ LastIs("write_file")
    /\ ~last.outcome.raised
    /\ last.outcome.value.text = Wrote(0, <<>>).text

\* C26: the number in the success result of write_file is the number of
\* bytes the file holds after the write, which is the length of the UTF-8
\* encoding of the content.
C26_WriteReportsBytesWritten ==
    LastWriteSucceeded =>
       /\ last.outcome.fs[LastTarget].content = Utf8Encode(last.arguments["content"].v)
       /\ last.outcome.value.n = Len(last.outcome.fs[LastTarget].content)

\* for a content of one-byte characters the number is the number of bytes
C26_AsciiCountIsExact ==
    ( /\ LastWriteSucceeded
      /\ \A i \in 1..Len(last.arguments["content"].v) :
            Len(Utf8Bytes(last.arguments["content"].v[i])) = 1 ) =>
       last.outcome.value.n = Len(last.outcome.fs[LastTarget].content)

\* ------------------------------------------------------------------ adapter claims
\* the client has sent a request
Sent(provider) == llm.called /\ llm.config.provider = provider

\* the turns of a conversation that are no system turn, in order
NonSystem(msgs) == SelectSeq(msgs, LAMBDA m : m.role # "system")

\* the blocks of one type of a message of the Messages API, in order
BlocksOf(content, type) == SelectSeq(content, LAMBDA block : block.type = type)

\* the Messages-style message `sent` stands for the turn m
MessagesStyle(m, sent) ==
    IF m.role = "tool"
    THEN /\ sent.role = "user"
         /\ Len(sent.content) = 1
         /\ sent.content[1].type = "tool_result"
         /\ sent.content[1].tool_use_id = m.tool_call_id
         /\ sent.content[1].content = m.content
    ELSE IF m.role = "assistant" /\ m.tool_calls # <<>>
    THEN /\ sent.role = "assistant"
         /\ LET uses == BlocksOf(sent.content, "tool_use")
                texts == BlocksOf(sent.content, "text")
            IN  /\ Len(uses) + Len(texts) = Len(sent.content)
                /\ Len(uses) = Len(m.tool_calls)
                /\ \A i \in 1..Len(uses) :
                      /\ uses[i].id = m.tool_calls[i].id
                      /\ uses[i].name = m.tool_calls[i].function.name
                      /\ json_dumps(uses[i].input) = m.tool_calls[i].function.arguments
                /\ IF m.content = "" THEN texts = <<>>
                   ELSE Len(texts) = 1 /\ texts[1].text = m.content
    ELSE /\ sent.role = m.role
         /\ sent.content = m.content

\* the Chat-Completions-style entry `sent` stands for the turn m
ChatCompletionsStyle(m, sent) ==
    /\ sent.role = m.role
    /\ sent.content = m.content
    /\ m.tool_calls # <<>> => sent.tool_calls = m.tool_calls
    /\ m.role = "tool" => sent.tool_call_id = m.tool_call_id /\ sent.name = m.name

\* C23: the Messages-style request carries the text of the system turn in
\* its system field and in no message; its messages stand one for one, in
\* order, for the turns that are no system turn: a tool-role turn is a user
\* message with one tool-result block that has the turn's request id and
\* text, an assistant turn with tool requests is one assistant message whose
\* tool-use blocks have the ids, names and arguments of the requests in their
\* order. The Chat-Completions-style request has one entry for every turn,
\* in order, with its role, content and tool-call id.
C23_AdaptersCarryTheConversation ==
    /\ Sent("anthropic") =>
          LET others == NonSystem(llm.messages) IN
          /\ "system" \in DOMAIN llm.request
          /\ llm.request.system = llm.messages[1].content
          /\ Len(llm.request.messages) = Len(others)
          /\ \A k \in 1..Len(others) :
                /\ llm.request.messages[k].role # "system"
                /\ MessagesStyle(others[k], llm.request.messages[k])
    /\ Sent("openai") =>
          /\ Len(llm.request.messages) = Len(llm.messages)
          /\ \A k \in 1..Len(llm.messages) :
                ChatCompletionsStyle(llm.messages[k], llm.request.messages[k])

\* a Messages-style request was sent for a conversation that holds an
\* assistant turn with a text and two tool requests and their tool-role turns
C23_Witness ==
    /\ Sent("anthropic")
    /\ \E k \in 1..(Len(llm.messages) - 2) :
          /\ llm.messages[k].role = "assistant"
          /\ llm.messages[k].content # ""
          /\ Len(llm.messages[k].tool_calls) = 2
          /\ llm.messages[k + 1].role = "tool"
          /\ llm.messages[k + 2].role = "tool"

\* a Chat-Completions-style request was sent for a conversation with a
\* tool-role turn
C23_WitnessOpenAI ==
    /\ Sent("openai")
    /\ \E k \in 1..Len(llm.messages) : llm.messages[k].role = "tool"

RECURSIVE Concat(_)
\* the texts of a sequence, one after the other
Concat(texts) == IF texts = <<>> THEN "" ELSE Head(texts) \o Concat(Tail(texts))

\* the client got a response from its provider
Answered(provider) == Sent(provider) /\ llm.reply # NoReply

\* the text segments of the response of a provider, in emission order
TextSegments ==
    IF llm.config.provider = "openai"
    THEN IF llm.reply.content.none THEN <<>> ELSE <<llm.reply.content.v>>
    ELSE LET texts == BlocksOf(llm.reply.content, "text") IN
         [i \in 1..Len(texts) |-> texts[i].text]

\* the tool invocations of the response of a provider, in the order it
\* returned them: id, name and arguments as a Python value
Invocations ==
    IF llm.config.provider = "openai"
    THEN IF llm.reply.tool_calls.none THEN <<>>
         ELSE [i \in 1..Len(llm.reply.tool_calls.v) |->
                  [id |-> llm.reply.tool_calls.v[i].id,
                   name |-> llm.reply.tool_calls.v[i].function.name,
                   arguments |-> json_loads(llm.reply.tool_calls.v[i].function.arguments)]]
    ELSE LET uses == BlocksOf(llm.reply.content, "tool_use") IN
         [i \in 1..Len(uses) |->
             [id |-> uses[i].id, name |-> uses[i].name,
              arguments |-> [raised |-> FALSE, type |-> uses[i].input.type,
                             value |-> uses[i].input.value]]]

\* the tool requests of the returned turn are the tool invocations of the
\* response: same ids, names and arguments, same order
RequestsAreInvocations ==
    /\ Len(llm.turn.tool_calls) = Len(Invocations)
    /\ \A i \in 1..Len(Invocations) :
          /\ llm.turn.tool_calls[i].id = Invocations[i].id
          /\ llm.turn.tool_calls[i].function.name = Invocations[i].name
          /\ json_loads(llm.turn.tool_calls[i].function.arguments) = Invocations[i].arguments

\* C24: the turn an adapter returns is an assistant turn whose text is the
\* concatenation of the text segments of the response in emission order,
\* empty when there is none, and whose tool requests are the tool invocations
\* of the response, with their ids, names and arguments, in their order.
C24_ReplyParsedFaithfully ==
    llm.called /\ llm.reply # NoReply =>
       /\ llm.turn.role = "assistant"
       /\ llm.turn.content = Concat(TextSegments)
       /\ RequestsAreInvocations

\* what the adapters do return: the tool requests of the response, and its
\* text segments joined by newlines by the Messages-style adapter
C24_SegmentsJoinedByNewlines ==
    llm.called /\ llm.reply # NoReply =>
       /\ llm.turn.role = "assistant"
       /\ llm.turn.content = IF llm.config.provider = "openai" THEN Concat(TextSegments)
                             ELSE JoinLines(TextSegments)
       /\ RequestsAreInvocations

\* ------------------------------------------------------------------ what every request carries
\* the declaration of a tool in the request, whatever the provider calls its
\* fields
DeclaredAs(declaration, sent) ==
    IF llm.config.provider = "openai"
    THEN sent = declaration
    ELSE /\ sent.name = declaration.function.name
         /\ sent.description = declaration.function.description
         /\ sent.input_schema = declaration.function.parameters

\* a request carries the configuration, one message or system field for
\* every turn of the conversation it was built from, and a declaration for
\* every tool of the registry
RequestComplete ==
    llm.called =>
       /\ {"model", "temperature", "max_tokens", "messages", "tools"} \subseteq DOMAIN llm.request
       /\ llm.request.model = llm.config.model
       /\ llm.request.temperature = llm.config.temperature
       /\ llm.request.max_tokens = llm.config.max_tokens
       /\ Len(llm.request.messages)
             + (IF "system" \in DOMAIN llm.request THEN 1 ELSE 0) = Len(llm.messages)
       /\ Len(llm.request.tools) = Len(TOOL_SCHEMAS)
       /\ \A i \in 1..Len(TOOL_SCHEMAS) : DeclaredAs(TOOL_SCHEMAS[i], llm.request.tools[i])
       /\ {TOOL_SCHEMAS[i].function.name : i \in 1..Len(TOOL_SCHEMAS)} = TOOL_REGISTRY

\* a request is built from the conversation as it stands when the model is
\* asked
RequestOfConversation ==
    (pc = "Thinking" /\ llm' # llm) => llm'.called /\ llm'.messages = messages

\* every step that leaves Thinking without an exception of the adapter
\* itself has sent a request
ThinkingSends ==
    (pc = "Thinking" /\ pc' # "Thinking" /\ returned' # Raise("JSONDecodeError")) =>
       llm'.called /\ llm'.messages = messages

\* C25: every request to the model, with either adapter, carries the
\* configured model name, temperature and max_tokens, the whole conversation
\* as it stands when the model is asked, and the name, description and
\* parameter schema of every tool of the registry.
C25_RequestCarriesConfiguration ==
    /\ []RequestComplete
    /\ [][RequestOfConversation]_vars
    /\ [][ThinkingSends]_vars

\* what holds of the requests of both adapters: everything but the
\* temperature, which the Messages-style request does not have
C25_AllButTemperature ==
    llm.called =>
       /\ {"model", "max_tokens", "messages", "tools"} \subseteq DOMAIN llm.request
       /\ llm.request.model = llm.config.model
       /\ llm.request.max_tokens = llm.config.max_tokens
       /\ ("temperature" \in DOMAIN llm.request) = (llm.config.provider = "openai")
       /\ Len(llm.request.tools) = Len(TOOL_SCHEMAS)
       /\ \A i \in 1..Len(TOOL_SCHEMAS) : DeclaredAs(TOOL_SCHEMAS[i], llm.request.tools[i])

====
